---- MODULE Spec2Model ----
(***************************************************************************)
(* hypr-sessions: saving and restoring a Hyprland session.                 *)
(*                                                                         *)
(* The module models the reconciliation core of the program:               *)
(*   - ClientEntry: construction, validation, to_dict / from_dict          *)
(*   - pwa_key_for: longest-key-first web-app key resolution               *)
(*   - _create_client_entry / _process_clients: the snapshot builder       *)
(*   - wait_for_windows: the poll loop bounded by a deadline               *)
(*   - match_window / place_windows: the greedy placement matcher          *)
(*   - read_toml, launch_applications_with_logging, launch                 *)
(*   - save_session / restore_session: the two commands and their exits    *)
(*                                                                         *)
(* Python values are modelled as follows.                                  *)
(*   str        a sequence of one-character strings, so that len(),        *)
(*              lower() and the `in` substring test are computed           *)
(*   None       the empty tuple <<>>; a present optional value v is <<v>>  *)
(*   dict       a sequence of <<key, value>> pairs with distinct keys, in  *)
(*              insertion order (Python dicts and TOML tables keep it)     *)
(*   JSON dict  a function from its keys (TLA+ strings) to its values      *)
(* Each component is exercised by a specification of its own (SpecEntry,   *)
(* SpecPwa, SpecSave, SpecWait, SpecPlace, SpecRestore); `comp` names the  *)
(* component a behaviour exercises, the other components' variables stay   *)
(* idle.                                                                   *)
(***************************************************************************)
EXTENDS Integers, Sequences, FiniteSets, TLC

VARIABLES
    comp,       \* the component this behaviour exercises
    \* ---- ClientEntry construction (commons.py) ----
    via,        \* how the entry was constructed: "idle", "direct", "from_dict", "classify"
    ctorArgs,   \* the arguments of the construction
    ctorRes,    \* its outcome: [ok, entry, err]
    rtDict,     \* to_dict(entry) of a constructed entry (None before)
    rtRes,      \* from_dict(rtDict) (None before)
    \* ---- pwa_key_for (commons.py) ----
    pwaCall,    \* None, or <<[title, pwa_map, res]>> once pwa_key_for was called
    \* ---- save (commands/save.py) ----
    savePc,     \* "idle", "start", "done" (data built), "raised" (an exception before that)
    clients,    \* the raw client list, each client with its realpath outcome
    cfg,        \* the command map save loaded: [pwa |-> dict, apps |-> dict, flat |-> dict]
    saved,      \* the entries _process_clients returned
    missing_mappings,   \* the missing-mapping set _process_clients returned
    snapshot,   \* None, or <<the "clients" list of the snapshot data>>
    outFile,    \* the output file: None, or <<the "clients" list written to it>>
    \* ---- a command invocation (commands/save.py, commands/restore.py) ----
    dry_run,    \* the --dry-run flag
    apps_toml,  \* None, or <<the command-map file the invocation is given>>
    exit_code,  \* None, or <<the exit code the caller observes>>
    hyprctl,    \* whether the hyprctl binary can be started during the invocation
    \* ---- restore (commands/restore.py), the launcher (commons.py) ----
    restorePc,  \* "idle", "start", "launch", "wait", "place", "exit"
    inputFile,  \* None, or <<the snapshot file the invocation is given>>
    appmap,     \* the command map restore loaded
    launchIdx,  \* number of entries the launcher has handled
    launched,   \* the counter the launcher returns
    execs,      \* the execute requests dispatched, in order
    calls,      \* how often restore called the launcher, the waiter and the placer
    report,     \* what restore printed: the launched and placed ratios
    \* ---- wait_for_windows, place_windows (commons.py) ----
    desired,    \* the saved entries
    now,        \* the client list last observed
    waitPc,     \* "idle", "test" (at the while condition), "polled", "done"
    clock,      \* time.time()
    deadline,   \* the deadline passed to wait_for_windows
    placePc,    \* "idle", "loop", "done"
    placeIdx,   \* number of entries place_windows has handled
    unmatched,  \* the indices of `now` not claimed yet
    placed,     \* the counter place_windows returns
    cmds,       \* the hypr(...) dispatches issued, in order
    hist        \* per handled entry: the window matched (0: none) and the pool before

entryVars == <<via, ctorArgs, ctorRes, rtDict, rtRes>>
pwaVars == <<pwaCall>>
saveVars == <<savePc, clients, cfg, saved, missing_mappings, snapshot, outFile>>
cmdVars == <<dry_run, apps_toml, exit_code, hyprctl>>
launchVars == <<launchIdx, launched, execs>>
restoreVars == <<restorePc, inputFile, appmap, launchVars, calls, report>>
waitVars == <<waitPc, clock, deadline>>
placeVars == <<placePc, placeIdx, unmatched, placed, cmds, hist>>
vars == <<comp, entryVars, pwaVars, saveVars, cmdVars, restoreVars, desired, now,
          waitVars, placeVars>>

-----------------------------------------------------------------------------
(* Python values *)

None == <<>>
Some(v) == <<v>>
Val(o) == o[1]

\* bool(o) of an optional str / list: None and the empty value are falsy
TruthySeq(o) == o # None /\ Val(o) # <<>>
\* bool(o) of an optional int: None and 0 are falsy
TruthyInt(o) == o # None /\ Val(o) # 0

\* the elements of a sequence
Range(s) == {s[i] : i \in 1..Len(s)}

\* all sequences over S of length lo..hi
SeqsOf(S, lo, hi) == UNION {[1..n -> S] : n \in lo..hi}

-----------------------------------------------------------------------------
(* ClientEntry, commons.py *)

POSITION_SIZE == 2

WindowKind_PWA == "PWA"
WindowKind_BROWSER == "BROWSER"
WindowKind_TERMINAL == "TERMINAL"
WindowKind_APPLICATION == "APPLICATION"
WindowKinds == {WindowKind_PWA, WindowKind_BROWSER, WindowKind_TERMINAL, WindowKind_APPLICATION}

\* WindowKind.value: the string persisted in the snapshot
KindValue(k) ==
    CASE k = WindowKind_PWA -> "pwa"
      [] k = WindowKind_BROWSER -> "browser"
      [] k = WindowKind_TERMINAL -> "terminal"
      [] k = WindowKind_APPLICATION -> "application"

KindValues == {KindValue(k) : k \in WindowKinds}

\* WindowKind(value): the member with that value (ValueError for any other string,
\* which from_dict checks before it calls this)
WindowKind(v) == CHOOSE k \in WindowKinds : KindValue(k) = v

\* the outcome of a construction
Built(e) == [ok |-> TRUE, entry |-> Some(e), err |-> "none"]
Raised(err) == [ok |-> FALSE, entry |-> None, err |-> err]

\* a mutant of __post_init__: the workspace check accepts 0
post_init_ws_off_by_one(e) ==
    IF Len(e.at) # POSITION_SIZE THEN "ValueError"
    ELSE IF Len(e.size) # POSITION_SIZE THEN "ValueError"
    ELSE IF e.kind = WindowKind_PWA /\ ~TruthySeq(e.pwa_key) THEN "ValueError"
    ELSE IF e.workspace < 0 THEN "ValueError"
    ELSE "none"

\* a mutant of __post_init__: the pwa_key check tests only for None
post_init_key_none_only(e) ==
    IF Len(e.at) # POSITION_SIZE THEN "ValueError"
    ELSE IF Len(e.size) # POSITION_SIZE THEN "ValueError"
    ELSE IF e.kind = WindowKind_PWA /\ e.pwa_key = None THEN "ValueError"
    ELSE IF e.workspace <= 0 THEN "ValueError"
    ELSE "none"

\* a mutant of __post_init__: the pwa_key check is missing
post_init_no_key_check(e) ==
    IF Len(e.at) # POSITION_SIZE THEN "ValueError"
    ELSE IF Len(e.size) # POSITION_SIZE THEN "ValueError"
    ELSE IF e.workspace <= 0 THEN "ValueError"
    ELSE "none"

\* ClientEntry.__post_init__: the error it raises, "none" when it returns
post_init(e) ==
    IF Len(e.at) # POSITION_SIZE THEN "ValueError"
    ELSE IF Len(e.size) # POSITION_SIZE THEN "ValueError"
    ELSE IF e.kind = WindowKind_PWA /\ ~TruthySeq(e.pwa_key) THEN "ValueError"
    ELSE IF e.workspace <= 0 THEN "ValueError"
    ELSE "none"

\* ClientEntry(...): the dataclass stores the fields as given, then validates
ClientEntry(fields) ==
    IF post_init(fields) = "none" THEN Built(fields) ELSE Raised(post_init(fields))

MandatoryKeys == {"class", "title", "workspace", "floating", "at", "size", "monitor", "kind"}
OptionalKeys == {"app_id", "pid", "cwd", "pwa_key"}

\* the optional fields to_dict writes: those that are not None
PresentKeys(e) ==
    {k \in OptionalKeys :
        CASE k = "app_id" -> e.app_id # None
          [] k = "pid" -> e.pid # None
          [] k = "cwd" -> e.cwd # None
          [] k = "pwa_key" -> e.pwa_key # None}

\* a mutant of to_dict: optional fields are written only if truthy
to_dict_truthy(e) ==
    [k \in MandatoryKeys \cup
           {k \in PresentKeys(e) :
               IF k = "pid" THEN TruthyInt(e.pid)
               ELSE IF k = "app_id" THEN TruthySeq(e.app_id)
               ELSE IF k = "cwd" THEN TruthySeq(e.cwd)
               ELSE TruthySeq(e.pwa_key)} |->
        CASE k = "class" -> e.class_name
          [] k = "title" -> e.title
          [] k = "workspace" -> e.workspace
          [] k = "floating" -> e.floating
          [] k = "at" -> e.at
          [] k = "size" -> e.size
          [] k = "monitor" -> e.monitor
          [] k = "kind" -> KindValue(e.kind)
          [] k = "app_id" -> Val(e.app_id)
          [] k = "pid" -> Val(e.pid)
          [] k = "cwd" -> Val(e.cwd)
          [] k = "pwa_key" -> Val(e.pwa_key)]

\* ClientEntry.to_dict
to_dict(e) ==
    [k \in MandatoryKeys \cup PresentKeys(e) |->
        CASE k = "class" -> e.class_name
          [] k = "title" -> e.title
          [] k = "workspace" -> e.workspace
          [] k = "floating" -> e.floating
          [] k = "at" -> e.at
          [] k = "size" -> e.size
          [] k = "monitor" -> e.monitor
          [] k = "kind" -> KindValue(e.kind)
          [] k = "app_id" -> Val(e.app_id)
          [] k = "pid" -> Val(e.pid)
          [] k = "cwd" -> Val(e.cwd)
          [] k = "pwa_key" -> Val(e.pwa_key)]

\* dict.get(k): None when the key is absent
Get(data, k) == IF k \in DOMAIN data THEN Some(data[k]) ELSE None

\* ClientEntry.from_dict: the keyword arguments are evaluated in order, kind first
from_dict(data) ==
    IF "kind" \notin DOMAIN data THEN Raised("KeyError")
    ELSE IF data["kind"] \notin KindValues THEN Raised("ValueError")
    ELSE IF ~(MandatoryKeys \subseteq DOMAIN data) THEN Raised("KeyError")
    ELSE ClientEntry([kind |-> WindowKind(data["kind"]),
                      class_name |-> data["class"],
                      title |-> data["title"],
                      workspace |-> data["workspace"],
                      floating |-> data["floating"],
                      at |-> data["at"],
                      size |-> data["size"],
                      monitor |-> data["monitor"],
                      app_id |-> Get(data, "app_id"),
                      pid |-> Get(data, "pid"),
                      cwd |-> Get(data, "cwd"),
                      pwa_key |-> Get(data, "pwa_key")])

-----------------------------------------------------------------------------
(* str: len(), lower(), the substring test, the prefix and suffix tests *)

UpperCase == <<"A", "B", "C", "D", "E", "F", "G", "H", "I", "J", "K", "L", "M",
               "N", "O", "P", "Q", "R", "S", "T", "U", "V", "W", "X", "Y", "Z">>
LowerCase == <<"a", "b", "c", "d", "e", "f", "g", "h", "i", "j", "k", "l", "m",
               "n", "o", "p", "q", "r", "s", "t", "u", "v", "w", "x", "y", "z">>

LowerChar(c) ==
    IF \E i \in 1..Len(UpperCase) : UpperCase[i] = c
    THEN LowerCase[CHOOSE i \in 1..Len(UpperCase) : UpperCase[i] = c]
    ELSE c

\* str.lower()
Lower(s) == [i \in 1..Len(s) |-> LowerChar(s[i])]

\* a in b, for strings
IsSubstr(a, b) == \E i \in 0..(Len(b) - Len(a)) : SubSeq(b, i + 1, i + Len(a)) = a

StartsWith(s, p) == Len(s) >= Len(p) /\ SubSeq(s, 1, Len(p)) = p
EndsWith(s, p) == Len(s) >= Len(p) /\ SubSeq(s, Len(s) - Len(p) + 1, Len(s)) = p

Min(S) == CHOOSE x \in S : \A y \in S : x <= y

(* dict: a sequence of <<key, value>> pairs with distinct keys *)

Keys(d) == [i \in 1..Len(d) |-> d[i][1]]
Has(d, k) == \E i \in 1..Len(d) : d[i][1] = k
\* dict.get(k)
Lookup(d, k) == IF Has(d, k) THEN Some(d[CHOOSE i \in 1..Len(d) : d[i][1] = k][2]) ELSE None
IsDict(d) == \A i, j \in 1..Len(d) : d[i][1] = d[j][1] => i = j

-----------------------------------------------------------------------------
(* pwa_key_for, commons.py *)

\* a mutant of the sort: shortest key first
sorted_by_len_ascending(keys) ==
    LET n == Len(keys)
        rank(i) == 1 + Cardinality({j \in 1..n :
                        \/ Len(keys[j]) < Len(keys[i])
                        \/ (Len(keys[j]) = Len(keys[i]) /\ j < i)})
    IN  [p \in 1..n |-> keys[CHOOSE i \in 1..n : rank(i) = p]]

\* sorted(pwa_map.keys(), key=len, reverse=True): the sort is stable, and with
\* reverse=True keys of equal length keep their original order
sorted_by_len_reverse(keys) ==
    LET n == Len(keys)
        rank(i) == 1 + Cardinality({j \in 1..n :
                        \/ Len(keys[j]) > Len(keys[i])
                        \/ (Len(keys[j]) = Len(keys[i]) /\ j < i)})
    IN  [p \in 1..n |-> keys[CHOOSE i \in 1..n : rank(i) = p]]

\* pwa_key_for(title, pwa_map): the first key, longest first, whose lower-cased form
\* is a substring of the lower-cased title
pwa_key_for(title, pwa_map) ==
    IF title = <<>> THEN None
    ELSE LET t == Lower(title)
             ks == sorted_by_len_reverse(Keys(pwa_map))
             hits == {p \in 1..Len(ks) : IsSubstr(Lower(ks[p]), t)}
         IN  IF hits = {} THEN None ELSE Some(ks[Min(hits)])

-----------------------------------------------------------------------------
(* The window classifier, commands/save.py *)

s_chromium == <<"c", "h", "r", "o", "m", "i", "u", "m">>
s_google_chrome == <<"g", "o", "o", "g", "l", "e", "-", "c", "h", "r", "o", "m", "e">>
s_chrome_prefix == <<"c", "h", "r", "o", "m", "e", "-">>
s_default_suffix == <<"_", "_", "-", "D", "e", "f", "a", "u", "l", "t">>
s_Alacritty == <<"A", "l", "a", "c", "r", "i", "t", "t", "y">>
s_foot == <<"f", "o", "o", "t">>
s_hyprland == <<"h", "y", "p", "r", "l", "a", "n", "d">>
s_Hyprland == <<"H", "y", "p", "r", "l", "a", "n", "d">>
s_hyprpaper == <<"h", "y", "p", "r", "p", "a", "p", "e", "r">>
s_waybar == <<"w", "a", "y", "b", "a", "r">>
s_rofi == <<"r", "o", "f", "i">>
s_dunst == <<"d", "u", "n", "s", "t">>
s_firefox == <<"f", "i", "r", "e", "f", "o", "x">>
s_kitty == <<"k", "i", "t", "t", "y">>
s_chrome_gh_default == <<"c", "h", "r", "o", "m", "e", "-", "g", "h", "_", "_", "-", "D", "e", "f", "a", "u", "l", "t">>
s_gh == <<"g", "h">>
s_GH == <<"G", "H">>
s_chrom == <<"c", "h", "r", "o", "m">>
s_cwd == <<"/", "w">>
s_x == <<"x">>
s_y == <<"y">>
s_Xy == <<"X", "y">>
s_foo == <<"f", "o", "o">>
s_bar == <<"b", "a", "r">>
s_unknown == <<"u", "n", "k", "n", "o", "w", "n">>

\* re.match(r"^(chromium|google-chrome|chrome-.*__-Default)$", app_class)
browser_class(s) ==
    \/ s = s_chromium
    \/ s = s_google_chrome
    \/ /\ StartsWith(s, s_chrome_prefix)
       /\ EndsWith(s, s_default_suffix)
       /\ Len(s) >= Len(s_chrome_prefix) + Len(s_default_suffix)

\* a mutant of the terminal whitelist: the class names are lower-cased
term_classes_lowercase == {Lower(s_Alacritty), s_foot}

\* term_classes = {"Alacritty", "foot"}
term_classes == {s_Alacritty, s_foot}

\* a raw client record of `hyprctl -j clients`; every field is optional (dict.get),
\* wsid stands for client["workspace"]["id"]
RawClient(class, initialClass, title, wsid, floating, at, size, pid, mapped) ==
    [class |-> class, initialClass |-> initialClass, title |-> title, wsid |-> wsid,
     floating |-> floating, at |-> at, size |-> size, monitor |-> None,
     app_id |-> None, pid |-> pid, mapped |-> mapped, address |-> None]

\* a or b
OrSeq(a, b) == IF TruthySeq(a) THEN a ELSE b

\* a mutant of _get_terminal_cwd: the class is not tested against the whitelist
_get_terminal_cwd_any_class(client, realpath) ==
    IF TruthyInt(client.pid) THEN realpath ELSE None

\* _get_terminal_cwd(client): realpath is what os.path.realpath("/proc/<pid>/cwd")
\* yields, None when it raised (the exception is suppressed)
_get_terminal_cwd(client, realpath) ==
    IF TruthyInt(client.pid) /\ client.class # None /\ Val(client.class) \in term_classes
    THEN realpath
    ELSE None

\* _create_client_entry(client, pwa_map)
_create_client_entry(client, pwa_map, realpath) ==
    LET app_class == OrSeq(client.class, client.initialClass)
        title == IF TruthySeq(client.title) THEN Val(client.title) ELSE <<>>
        workspace_id == IF TruthyInt(client.wsid) THEN Val(client.wsid) ELSE 1
        is_floating == IF client.floating = None THEN FALSE ELSE Val(client.floating)
        cwd == _get_terminal_cwd(client, realpath)
        browser == TruthySeq(app_class) /\ browser_class(Val(app_class))
        key == IF browser THEN pwa_key_for(Val(app_class), pwa_map) ELSE None
        kind == IF browser
                THEN (IF TruthySeq(key) THEN WindowKind_PWA ELSE WindowKind_BROWSER)
                ELSE IF TruthySeq(cwd) THEN WindowKind_TERMINAL
                ELSE WindowKind_APPLICATION
    IN  ClientEntry([kind |-> kind,
                     class_name |-> IF TruthySeq(app_class) THEN Val(app_class) ELSE <<>>,
                     title |-> title,
                     workspace |-> workspace_id,
                     floating |-> is_floating,
                     at |-> IF TruthySeq(client.at) THEN Val(client.at) ELSE <<0, 0>>,
                     size |-> IF TruthySeq(client.size) THEN Val(client.size) ELSE <<100, 100>>,
                     monitor |-> IF TruthyInt(client.monitor) THEN Val(client.monitor) ELSE 0,
                     app_id |-> client.app_id,
                     pid |-> client.pid,
                     cwd |-> cwd,
                     pwa_key |-> IF browser /\ TruthySeq(key) THEN key ELSE None])

-----------------------------------------------------------------------------
(* Idle values: what a component's variables hold in a behaviour that exercises
   another component *)

EntryIdle == via = "idle" /\ ctorArgs = None /\ ctorRes = Raised("none")
             /\ rtDict = None /\ rtRes = None
PwaIdle == pwaCall = None
\* a command map with no entry: what an empty or absent file loads as
EmptyToml == [pwa |-> <<>>, apps |-> <<>>, flat |-> <<>>]

SaveIdle == savePc = "idle" /\ clients = <<>> /\ cfg = EmptyToml
            /\ saved = <<>> /\ missing_mappings = {} /\ snapshot = None
            /\ outFile = None
CmdIdle == dry_run = FALSE /\ apps_toml = None /\ exit_code = None /\ hyprctl = TRUE
NoCalls == [launch |-> 0, wait |-> 0, place |-> 0]
LaunchIdle == launchIdx = 0 /\ launched = 0 /\ execs = <<>>
CommandIdle == restorePc = "idle" /\ inputFile = None /\ appmap = EmptyToml
               /\ LaunchIdle /\ calls = NoCalls /\ report = <<>>
WaitIdle == waitPc = "idle" /\ clock = 0 /\ deadline = 0
PlaceIdle == placePc = "idle" /\ placeIdx = 0 /\ unmatched = {} /\ placed = 0
             /\ cmds = <<>> /\ hist = <<>>
RestoreIdle == desired = <<>> /\ now = <<>> /\ WaitIdle /\ PlaceIdle

-----------------------------------------------------------------------------
(* SpecEntry: constructing a ClientEntry directly, from a snapshot record, or by
   the classifier, and the to_dict / from_dict round trip of a constructed entry *)

MaxCoordLen == 3
MaxWs == 2

Workspaces == -1..MaxWs

\* the constructor arguments tried
FieldInputs ==
    [kind : WindowKinds, class_name : {s_firefox}, title : {s_x},
     workspace : Workspaces, floating : BOOLEAN,
     at : SeqsOf({0, 7}, 0, MaxCoordLen), size : SeqsOf({100}, 0, MaxCoordLen),
     monitor : {0}, app_id : {None, Some(s_firefox)}, pid : {None, Some(42)},
     cwd : {None, Some(s_cwd)}, pwa_key : {None, Some(<<>>), Some(s_gh)}]

\* a client record of a snapshot file with the fields f, the kind string kindv
\* and the keys in drop left out
SnapshotRecord(f, kindv, drop) ==
    [k \in ({"class", "title", "workspace", "floating", "at", "size", "monitor", "kind"}
            \cup {k \in {"app_id"} : f.app_id # None}
            \cup {k \in {"pid"} : f.pid # None}
            \cup {k \in {"cwd"} : f.cwd # None}
            \cup {k \in {"pwa_key"} : f.pwa_key # None}) \ drop |->
        CASE k = "class" -> f.class_name
          [] k = "title" -> f.title
          [] k = "workspace" -> f.workspace
          [] k = "floating" -> f.floating
          [] k = "at" -> f.at
          [] k = "size" -> f.size
          [] k = "monitor" -> f.monitor
          [] k = "kind" -> kindv
          [] k = "app_id" -> Val(f.app_id)
          [] k = "pid" -> Val(f.pid)
          [] k = "cwd" -> Val(f.cwd)
          [] k = "pwa_key" -> Val(f.pwa_key)]

\* well-formed fields, for the records with a missing key or an unknown kind
PlainFields == {f \in FieldInputs : f.at = <<7, 0>> /\ f.size = <<100, 100>> /\ f.workspace = 1}

\* the raw clients the classifier is tried on
ClassifyClients ==
    {RawClient(c, ic, t, w, fl, at, sz, pid, None) :
        c \in {None, Some(<<>>), Some(s_firefox), Some(s_chromium),
               Some(s_chrome_gh_default), Some(s_Alacritty), Some(s_kitty)},
        ic \in {None, Some(s_chromium)},
        t \in {None, Some(s_x)},
        w \in {None, Some(-1), Some(0), Some(MaxWs)},
        fl \in {None, Some(TRUE)},
        at \in {None, Some(<<7, 0>>), Some(<<7, 0, 7>>)},
        sz \in {None, Some(<<100, 100>>)},
        pid \in {None, Some(42)}}

\* the web-app key tables tried: dicts, the values are the launch commands
PwaMaps == {<<>>, <<<<s_gh, s_x>>>>, <<<<s_chrom, s_x>>, <<s_GH, s_x>>>>, <<<<s_x, s_gh>>>>}

\* the outcomes of os.path.realpath("/proc/<pid>/cwd"): a path, or an exception
RealpathOutcomes == {None, Some(s_cwd)}

EntryInit == comp = "entry" /\ EntryIdle /\ PwaIdle /\ SaveIdle /\ RestoreIdle
             /\ CmdIdle /\ CommandIdle

EntryOthers == <<comp, pwaVars, saveVars, cmdVars, restoreVars, desired, now,
                 waitVars, placeVars>>

\* ClientEntry(**fields)
Construct ==
    /\ comp = "entry" /\ via = "idle"
    /\ \E f \in FieldInputs :
        /\ via' = "direct"
        /\ ctorArgs' = Some(f)
        /\ ctorRes' = ClientEntry(f)
    /\ UNCHANGED <<rtDict, rtRes, EntryOthers>>

\* ClientEntry.from_dict(data) on a record with all mandatory keys and a known kind
FromDict ==
    /\ comp = "entry" /\ via = "idle"
    /\ \E f \in FieldInputs :
        LET data == SnapshotRecord(f, KindValue(f.kind), {})
        IN  /\ via' = "from_dict"
            /\ ctorArgs' = Some(data)
            /\ ctorRes' = from_dict(data)
    /\ UNCHANGED <<rtDict, rtRes, EntryOthers>>

\* ClientEntry.from_dict(data) on a record with a missing key or an unknown kind
FromDictMalformed ==
    /\ comp = "entry" /\ via = "idle"
    /\ \E f \in PlainFields, kindv \in KindValues \cup {"bogus"},
          drop \in {{}} \cup {{k} : k \in MandatoryKeys} :
        /\ (kindv = "bogus" \/ drop # {})
        /\ LET data == SnapshotRecord(f, kindv, drop)
           IN  /\ via' = "from_dict"
               /\ ctorArgs' = Some(data)
               /\ ctorRes' = from_dict(data)
    /\ UNCHANGED <<rtDict, rtRes, EntryOthers>>

\* _create_client_entry(client, pwa_map, logger)
Classify ==
    /\ comp = "entry" /\ via = "idle"
    /\ \E c \in ClassifyClients, m \in PwaMaps, rp \in RealpathOutcomes :
        /\ via' = "classify"
        /\ ctorArgs' = Some([client |-> c, pwa_map |-> m, realpath |-> rp])
        /\ ctorRes' = _create_client_entry(c, m, rp)
    /\ UNCHANGED <<rtDict, rtRes, EntryOthers>>

\* entry.to_dict() of a constructed entry
Serialize ==
    /\ comp = "entry" /\ via # "idle" /\ ctorRes.ok /\ rtDict = None
    /\ rtDict' = Some(to_dict(Val(ctorRes.entry)))
    /\ UNCHANGED <<via, ctorArgs, ctorRes, rtRes, EntryOthers>>

\* ClientEntry.from_dict(d) of the serialized entry
Deserialize ==
    /\ comp = "entry" /\ rtDict # None /\ rtRes = None
    /\ rtRes' = Some(from_dict(Val(rtDict)))
    /\ UNCHANGED <<via, ctorArgs, ctorRes, rtDict, EntryOthers>>

EntryNext == Construct \/ FromDict \/ FromDictMalformed \/ Classify \/ Serialize \/ Deserialize

SpecEntry == EntryInit /\ [][EntryNext]_vars

-----------------------------------------------------------------------------
(* Claims about ClientEntry, checked under SpecEntry *)

\* the arguments a construction was given, as far as from_dict could read them
GivenAt == IF via = "direct" THEN Some(Val(ctorArgs).at) ELSE Get(Val(ctorArgs), "at")
GivenSize == IF via = "direct" THEN Some(Val(ctorArgs).size) ELSE Get(Val(ctorArgs), "size")
GivenWorkspace ==
    IF via = "direct" THEN Some(Val(ctorArgs).workspace) ELSE Get(Val(ctorArgs), "workspace")
GivenKindValue ==
    IF via = "direct" THEN Some(KindValue(Val(ctorArgs).kind)) ELSE Get(Val(ctorArgs), "kind")
GivenPwaKey == IF via = "direct" THEN Val(ctorArgs).pwa_key ELSE Get(Val(ctorArgs), "pwa_key")

GeometryValid ==
    /\ GivenAt # None /\ Len(Val(GivenAt)) = 2
    /\ GivenSize # None /\ Len(Val(GivenSize)) = 2
    /\ GivenWorkspace # None /\ Val(GivenWorkspace) >= 1

\* C1: a ClientEntry construction, directly or via from_dict, succeeds only if `at`
\* has exactly 2 elements, `size` has exactly 2 elements and workspace >= 1; an
\* input violating any of these is rejected with an error, no entry is produced,
\* and an accepted entry holds at, size and workspace exactly as they were given.
C1_ConstructionValidates ==
    via \in {"direct", "from_dict"} =>
        /\ ctorRes.ok =>
            /\ GeometryValid
            /\ Val(ctorRes.entry).at = Val(GivenAt)
            /\ Val(ctorRes.entry).size = Val(GivenSize)
            /\ Val(ctorRes.entry).workspace = Val(GivenWorkspace)
        /\ ~GeometryValid =>
            ~ctorRes.ok /\ ctorRes.entry = None /\ ctorRes.err # "none"

\* C1 witness: from_dict was given a record whose only fault is workspace = 0 and
\* rejected it.
C1_Witness ==
    /\ via = "from_dict" /\ ~ctorRes.ok /\ ctorRes.err = "ValueError"
    /\ GivenWorkspace = Some(0)
    /\ GivenAt # None /\ Len(Val(GivenAt)) = 2
    /\ GivenSize # None /\ Len(Val(GivenSize)) = 2
    /\ GivenKindValue = Some("application")

\* C2: constructing a ClientEntry with kind = WebApp (pwa) and an absent or empty
\* web-app key always fails, whatever the other fields are.
C2_PwaNeedsKey ==
    (via \in {"direct", "from_dict"}
        /\ GivenKindValue = Some("pwa") /\ ~TruthySeq(GivenPwaKey)) =>
        ~ctorRes.ok /\ ctorRes.entry = None /\ ctorRes.err # "none"

\* C2 witness: a direct construction with kind PWA, an empty (not absent) key and
\* otherwise valid fields was rejected.
C2_Witness ==
    /\ via = "direct" /\ ~ctorRes.ok
    /\ Val(ctorArgs).kind = WindowKind_PWA /\ Val(ctorArgs).pwa_key = Some(<<>>)
    /\ GeometryValid

\* C3 (as claimed): every ClientEntry constructed by the classifier or by from_dict
\* satisfies kind = WebApp <=> the web-app key is present and non-empty.
C3_Original ==
    (via \in {"classify", "from_dict"} /\ ctorRes.ok) =>
        (Val(ctorRes.entry).kind = WindowKind_PWA <=> TruthySeq(Val(ctorRes.entry).pwa_key))

\* C3 (amended): every constructed ClientEntry of kind WebApp has a present,
\* non-empty web-app key, and an entry built by the classifier has such a key only
\* if its kind is WebApp; the constructor and from_dict do not check the converse.
C3_Amended ==
    ctorRes.ok =>
        /\ Val(ctorRes.entry).kind = WindowKind_PWA => TruthySeq(Val(ctorRes.entry).pwa_key)
        /\ via = "classify" =>
            (TruthySeq(Val(ctorRes.entry).pwa_key) => Val(ctorRes.entry).kind = WindowKind_PWA)

\* C3 witness: the classifier built a WebApp entry, which carries its key.
C3_Witness ==
    /\ via = "classify" /\ ctorRes.ok
    /\ Val(ctorRes.entry).kind = WindowKind_PWA
    /\ Val(ctorRes.entry).pwa_key = Some(s_gh)

\* C4: round trip: for every constructed ClientEntry e, from_dict(to_dict(e))
\* succeeds and equals e.
C4_RoundTrip ==
    rtRes # None => Val(rtRes) = Built(Val(ctorRes.entry))

\* C4 witness: a Terminal entry with cwd and pid present, app_id and pwa_key absent,
\* went through to_dict and from_dict.
C4_Witness ==
    /\ rtRes # None /\ ctorRes.ok
    /\ Val(ctorRes.entry).kind = WindowKind_TERMINAL
    /\ Val(ctorRes.entry).cwd # None /\ Val(ctorRes.entry).pid # None
    /\ Val(ctorRes.entry).app_id = None /\ Val(ctorRes.entry).pwa_key = None
    /\ "cwd" \in DOMAIN Val(rtDict) /\ "app_id" \notin DOMAIN Val(rtDict)

-----------------------------------------------------------------------------
(* SpecPwa: pwa_key_for on bounded key tables and texts *)

MaxKeyLen == 2
MaxTableLen == 2
MaxTextLen == 3

\* keys hold an upper-case letter, texts hold it in both cases, so that a match may
\* need the key lower-cased, the text lower-cased, or both
PwaKeys == SeqsOf({"a", "B"}, 0, MaxKeyLen)
PwaTexts == SeqsOf({"a", "B", "b"}, 0, MaxTextLen)
PwaTables ==
    {[i \in 1..Len(ks) |-> <<ks[i], s_x>>] :
        ks \in {q \in SeqsOf(PwaKeys, 0, MaxTableLen) : \A i, j \in 1..Len(q) : q[i] = q[j] => i = j}}

PwaInit == comp = "pwa" /\ EntryIdle /\ PwaIdle /\ SaveIdle /\ RestoreIdle
           /\ CmdIdle /\ CommandIdle

\* pwa_key_for(title, pwa_map)
PwaKeyFor ==
    /\ comp = "pwa" /\ pwaCall = None
    /\ \E t \in PwaTexts, m \in PwaTables :
        pwaCall' = Some([title |-> t, pwa_map |-> m, res |-> pwa_key_for(t, m)])
    /\ UNCHANGED <<comp, entryVars, saveVars, cmdVars, restoreVars, desired, now,
                   waitVars, placeVars>>

PwaNext == PwaKeyFor

SpecPwa == PwaInit /\ [][PwaNext]_vars

\* the keys of the table whose lower-cased form is a substring of the lower-cased text
MatchingKeys(title, pwa_map) ==
    {k \in Range(Keys(pwa_map)) : IsSubstr(Lower(k), Lower(title))}

\* C5: pwa_key_for is longest-match-first: it returns no key exactly when the text
\* is empty or no key of the table is (case-insensitively) a substring of the text;
\* otherwise it returns a key of the table that is such a substring, and no strictly
\* longer key of the table is one.
C5_LongestMatchFirst ==
    pwaCall # None =>
        LET c == Val(pwaCall)
            matching == MatchingKeys(c.title, c.pwa_map)
        IN  /\ c.res = None <=> (c.title = <<>> \/ matching = {})
            /\ c.res # None =>
                /\ Val(c.res) \in matching
                /\ \A k \in matching : Len(k) <= Len(Val(c.res))

\* C5 witness: with the table {a, aB} (in that order) and a text containing aB in
\* another case, the longer key aB was returned.
C5_Witness ==
    /\ pwaCall # None
    /\ Keys(Val(pwaCall).pwa_map) = << <<"a">>, <<"a", "B">> >>
    /\ Val(pwaCall).title = <<"B", "a", "b">>
    /\ Val(pwaCall).res = Some(<<"a", "B">>)

-----------------------------------------------------------------------------
(* The snapshot builder, commands/save.py *)

system_classes == {<<>>, s_hyprland, s_Hyprland, s_hyprpaper, s_waybar, s_rofi, s_dunst}

\* a mutant of _should_check_mapping: the denylist is not consulted
_should_check_mapping_no_denylist(app_class) == TruthySeq(app_class)

\* _should_check_mapping(app_class)
_should_check_mapping(app_class) ==
    IF ~TruthySeq(app_class) THEN FALSE ELSE Val(app_class) \notin system_classes

\* a mutant of the mapping check: Browser windows are checked against the apps table
missing_for_browser_checked(client, entry, pwa_map, app_map) ==
    LET app_class == OrSeq(client.class, client.initialClass)
    IN  IF ~_should_check_mapping(app_class) THEN {}
        ELSE IF entry.kind = WindowKind_PWA
        THEN (IF TruthySeq(entry.pwa_key) /\ ~Has(pwa_map, Val(entry.pwa_key))
              THEN {Val(entry.pwa_key)} ELSE {})
        ELSE IF TruthySeq(app_class) /\ ~Has(app_map, Val(app_class))
             THEN {Val(app_class)} ELSE {}

\* _process_clients, the mapping check of one client: what it adds to missing_mappings
missing_for(client, entry, pwa_map, app_map) ==
    LET app_class == OrSeq(client.class, client.initialClass)
    IN  IF ~_should_check_mapping(app_class) THEN {}
        ELSE IF entry.kind = WindowKind_PWA
        THEN (IF TruthySeq(entry.pwa_key) /\ ~Has(pwa_map, Val(entry.pwa_key))
              THEN {Val(entry.pwa_key)} ELSE {})
        ELSE IF entry.kind = WindowKind_BROWSER THEN {}
        ELSE IF entry.kind \in {WindowKind_APPLICATION, WindowKind_TERMINAL}
        THEN (IF TruthySeq(app_class) /\ ~Has(app_map, Val(app_class))
              THEN {Val(app_class)} ELSE {})
        ELSE {}

\* a mutant of the mapped test: no client is skipped
IsMapped_always(client) == TRUE

\* client.get("mapped", True)
IsMapped(client) == IF client.mapped = None THEN TRUE ELSE Val(client.mapped)

\* _process_clients(clients, pwa_map, app_map): [ok, saved, missing]; ok is FALSE when
\* _create_client_entry raised, which ends the loop. cl[i] is a raw client together
\* with the outcome of realpath for it.
RECURSIVE _process_clients(_, _, _)
_process_clients(cl, pwa_map, app_map) ==
    IF cl = <<>> THEN [ok |-> TRUE, saved |-> <<>>, missing |-> {}]
    ELSE LET before == _process_clients(SubSeq(cl, 1, Len(cl) - 1), pwa_map, app_map)
             c == cl[Len(cl)]
             built == _create_client_entry(c.client, pwa_map, c.realpath)
         IN  IF ~before.ok THEN before
             ELSE IF ~IsMapped(c.client) THEN before
             ELSE IF ~built.ok THEN [ok |-> FALSE, saved |-> <<>>, missing |-> {}]
             ELSE [ok |-> TRUE,
                   saved |-> Append(before.saved, Val(built.entry)),
                   missing |-> before.missing
                               \cup missing_for(c.client, Val(built.entry), pwa_map, app_map)]

\* save_session: data["clients"] = [entry.to_dict() for entry in saved]
snapshot_clients(entries) == [i \in 1..Len(entries) |-> to_dict(entries[i])]

-----------------------------------------------------------------------------
(* SpecSave: one save over a bounded client list and command map *)

MaxClients == 2

\* the live windows tried: class, initialClass, workspace id, pid, mapped flag, and
\* what realpath yields for the pid
SaveWindow(class, initialClass, wsid, pid, mapped, realpath) ==
    [client |-> RawClient(class, initialClass, None, wsid, None, None, None, pid, mapped),
     realpath |-> realpath]

SaveWindows ==
    {SaveWindow(Some(s_firefox), None, w, None, m, None) :
        w \in {None, Some(-1)}, m \in {None, Some(FALSE)}}
    \cup {SaveWindow(Some(s_chromium), None, None, None, m, None) : m \in {None, Some(FALSE)}}
    \cup {SaveWindow(Some(c), None, None, None, None, None) :
        c \in {s_chrome_gh_default, s_waybar, s_kitty, s_Alacritty}}
    \cup {SaveWindow(Some(s_Alacritty), None, w, Some(42), None, rp) :
        w \in {None, Some(-1)}, rp \in RealpathOutcomes}
    \cup {SaveWindow(Some(<<>>), Some(s_kitty), None, None, None, None),
          SaveWindow(None, None, None, None, None, None)}

\* the command maps tried: [pwa] and [apps] tables, and one map whose only entry is
\* a flat top-level key
SaveCfgs ==
    [pwa : {<<>>, <<<<s_gh, s_x>>>>},
     apps : {<<>>, <<<<s_firefox, s_x>>>>, <<<<s_Alacritty, s_x>>, <<s_kitty, s_x>>>>},
     flat : {<<>>}]
    \cup {[EmptyToml EXCEPT !.flat = <<<<s_kitty, s_x>>>>]}

\* a command-map file: present and valid TOML (data: what tomllib loads), present and
\* not valid TOML (data: what the line-based fallback parser extracts from it),
\* absent, or present and not readable
TomlFile(kind, data) == [kind |-> kind, data |-> data]

\* read_toml(path): [ok, data]. tomllib.load raising leads to the fallback parser,
\* which yields {} for an absent file and raises when the file exists and cannot be
\* opened
read_toml(file) ==
    CASE file.kind = "valid" -> [ok |-> TRUE, data |-> file.data]
      [] file.kind = "malformed" -> [ok |-> TRUE, data |-> file.data]
      [] file.kind = "missing" -> [ok |-> TRUE, data |-> EmptyToml]
      [] OTHER -> [ok |-> FALSE, data |-> EmptyToml]

\* getattr(os, "EX_OK", 0) and getattr(os, "EX_SOFTWARE", 1) on Linux
EX_OK == 0
EX_SOFTWARE == 70

\* typer.Exit is click.exceptions.Exit, a RuntimeError: `except Exception` catches it
typer_Exit_is_Exception == TRUE

\* a mutant of the commands' try block: the exit raised inside it reaches the caller
exit_from_try_uncaught(code) == code

\* `raise typer.Exit(code)` inside the try block of save_session / restore_session:
\* the exit code the caller observes
exit_from_try(code) == IF typer_Exit_is_Exception THEN EX_SOFTWARE ELSE code

\* the command-map files save is tried with
SaveTomlFiles ==
    {TomlFile("valid", d) : d \in SaveCfgs}
    \cup {TomlFile("malformed", d) : d \in {EmptyToml, [EmptyToml EXCEPT !.apps = <<<<s_firefox, s_x>>>>]}}
    \cup {TomlFile("missing", EmptyToml), TomlFile("unreadable", EmptyToml)}

\* the answers of hyprjson(["clients"]): None when the query raises, as it does when
\* hyprctl cannot be started
SaveQueries == {None} \cup {Some(cl) : cl \in SeqsOf(SaveWindows, 0, MaxClients)}

SaveInit == comp = "save" /\ EntryIdle /\ PwaIdle /\ RestoreIdle /\ CommandIdle
            /\ savePc = "start" /\ clients = <<>> /\ cfg = EmptyToml
            /\ saved = <<>> /\ missing_mappings = {} /\ snapshot = None
            /\ outFile = None /\ CmdIdle

\* save_session: it loads the command map, queries the clients, classifies them,
\* builds the snapshot data and, unless --dry-run, writes it (the write may fail);
\* an exception at any step ends in the except branch
SaveSession ==
    /\ comp = "save" /\ savePc = "start"
    /\ \E file \in SaveTomlFiles, q \in SaveQueries, dry \in BOOLEAN, write_ok \in BOOLEAN :
        LET toml == read_toml(file)
            cl == IF toml.ok /\ q # None THEN Val(q) ELSE <<>>
            r == _process_clients(cl, toml.data.pwa, toml.data.apps)
            built == toml.ok /\ q # None /\ r.ok
        IN  /\ dry => write_ok
            /\ apps_toml' = Some(file)
            /\ dry_run' = dry
            /\ hyprctl' = (q # None)
            /\ clients' = cl
            /\ cfg' = toml.data
            /\ saved' = IF built THEN r.saved ELSE <<>>
            /\ missing_mappings' = IF built THEN r.missing ELSE {}
            /\ snapshot' = IF built THEN Some(snapshot_clients(r.saved)) ELSE None
            /\ savePc' = IF built THEN "done" ELSE "raised"
            /\ outFile' = IF built /\ ~dry /\ write_ok
                          THEN Some(snapshot_clients(r.saved)) ELSE None
            /\ exit_code' = IF built /\ write_ok
                            THEN Some(exit_from_try(EX_OK)) ELSE Some(EX_SOFTWARE)
    /\ UNCHANGED <<comp, entryVars, pwaVars, restoreVars, desired, now, waitVars, placeVars>>

SaveNext == SaveSession

SpecSave == SaveInit /\ [][SaveNext]_vars

-----------------------------------------------------------------------------
(* Claims about save, checked under SpecSave *)

\* the class of a live window: its class, else its initial class
WindowClass(w) == OrSeq(w.client.class, w.client.initialClass)

\* the kind the classifier gives a live window under the command map of this run
WindowKindOf(w) == Val(_create_client_entry(w.client, cfg.pwa, w.realpath).entry).kind

\* the system denylist, as the claim lists it
C9_Denylist == {<<>>, s_hyprland, s_Hyprland, s_hyprpaper, s_waybar, s_rofi, s_dunst}

\* C9: the missing-mapping set _process_clients returns contains a class exactly
\* when some live window that is not marked unmapped, whose class is non-empty and
\* outside the system denylist and whose kind is Application or Terminal has that
\* class and the apps table has no entry for it; being a set, it holds a class once
\* however many windows share it, and a Browser or WebApp window adds nothing.
C9_MissingMappings ==
    savePc = "done" =>
        missing_mappings =
            {Val(WindowClass(w)) : w \in
                {x \in Range(clients) :
                    /\ IsMapped(x.client)
                    /\ WindowClass(x) # None
                    /\ Val(WindowClass(x)) \notin C9_Denylist
                    /\ WindowKindOf(x) \in {WindowKind_APPLICATION, WindowKind_TERMINAL}
                    /\ ~Has(cfg.apps, Val(WindowClass(x)))}}

\* C9 witness: two mapped firefox windows and no apps entry for firefox: the set
\* returned is {firefox}.
C9_Witness ==
    /\ savePc = "done" /\ Len(clients) = 2
    /\ \A i \in 1..2 : clients[i].client.class = Some(s_firefox) /\ IsMapped(clients[i].client)
    /\ ~Has(cfg.apps, s_firefox)
    /\ missing_mappings = {s_firefox}

\* the scenario of C10: exactly two live windows, both mapped and on a regular
\* workspace, one of class firefox and one whitelisted terminal with a pid whose cwd
\* resolves
IsFirefoxWindow(w) == w.client.class = Some(s_firefox)
IsTerminalWindow(w) ==
    /\ w.client.class \in {Some(s_Alacritty), Some(s_foot)}
    /\ TruthyInt(w.client.pid)
    /\ TruthySeq(w.realpath)
OnRegularWorkspace(w) == w.client.wsid = None \/ Val(w.client.wsid) >= 1

BrowserAndTerminal ==
    /\ savePc # "start" /\ Len(clients) = 2
    /\ \A i \in 1..2 : IsMapped(clients[i].client) /\ OnRegularWorkspace(clients[i])
    /\ \E i, j \in 1..2 : i # j /\ IsFirefoxWindow(clients[i]) /\ IsTerminalWindow(clients[j])

-----------------------------------------------------------------------------
(* The window waiter, commons.py *)

\* a mutant of best_key: the class comes before the app_id
best_key_class_first(entry) ==
    IF entry.class_name # <<>> THEN entry.class_name
    ELSE IF TruthySeq(entry.app_id) THEN Val(entry.app_id)
    ELSE s_unknown

\* best_key(entry): entry.app_id or entry.class_name or "unknown"
best_key(entry) ==
    IF TruthySeq(entry.app_id) THEN Val(entry.app_id)
    ELSE IF entry.class_name # <<>> THEN entry.class_name
    ELSE s_unknown

\* a mutant of the window key: the class comes before the app_id
client_key_class_first(c) == OrSeq(OrSeq(c.class, c.app_id), c.initialClass)

\* c.get("app_id") or c.get("class") or c.get("initialClass"): None, or <<the key>>
client_key(c) == OrSeq(OrSeq(c.app_id, c.class), c.initialClass)

\* want_counts[k]
want_count(entries, k) == Cardinality({i \in 1..Len(entries) : best_key(entries[i]) = k})
\* got_counts.get(k, 0)
got_count(observed, k) == Cardinality({i \in 1..Len(observed) : client_key(observed[i]) = Some(k)})

\* a mutant of the readiness test: strictly more windows than wanted are required
wait_ok_strict(entries, observed) ==
    \A k \in {best_key(entries[i]) : i \in 1..Len(entries)} :
        got_count(observed, k) > want_count(entries, k)

\* a mutant of the readiness test: a key no window carries is not waited for
wait_ok_seen_keys(entries, observed) ==
    \A k \in {best_key(entries[i]) : i \in 1..Len(entries)} :
        got_count(observed, k) = 0 \/ got_count(observed, k) >= want_count(entries, k)

\* ok = all(got_counts.get(k, 0) >= want_counts[k] for k in want_counts)
wait_ok(entries, observed) ==
    \A k \in {best_key(entries[i]) : i \in 1..Len(entries)} :
        got_count(observed, k) >= want_count(entries, k)

\* a mutant of the sleep: the loop does not sleep
sleep_none == 1 - 1

\* time.sleep(1)
sleep_interval == 1

\* restore_session: deadline = time.time() + 30
WAIT_SECONDS == 30

-----------------------------------------------------------------------------
(* Saved entries and observed windows of the restore side *)

MaxEntries == 2
MaxWindows == 2
MaxPollTime == 1

\* a saved entry of kind Application
SavedEntry(app_id, class_name, title, floating) ==
    [kind |-> WindowKind_APPLICATION, class_name |-> class_name, title |-> title,
     workspace |-> 2, floating |-> floating, at |-> <<7, 0>>, size |-> <<100, 100>>,
     monitor |-> 0, app_id |-> app_id, pid |-> None, cwd |-> None, pwa_key |-> None]

\* an observed window
Window(app_id, class, initialClass, title, floating) ==
    [RawClient(class, initialClass, title, Some(1), floating, Some(<<0, 0>>),
               Some(<<50, 50>>), None, None) EXCEPT !.app_id = app_id]

\* hyprctl gives every window an address of its own
Addressed(ws) == [i \in 1..Len(ws) |-> [ws[i] EXCEPT !.address = Some(i)]]

-----------------------------------------------------------------------------
(* SpecWait: wait_for_windows against an arbitrary window manager *)

\* the saved entries: keys foo (class), bar (app_id before class), unknown (neither)
WaitEntries ==
    {SavedEntry(None, s_foo, s_x, FALSE), SavedEntry(Some(s_bar), s_foo, s_x, FALSE),
     SavedEntry(None, <<>>, s_x, FALSE)}

\* the windows a poll may observe: key foo (initialClass, the class being empty) and
\* key bar (app_id before class); no window has the key unknown
WaitWindows ==
    {Window(None, Some(<<>>), Some(s_foo), Some(s_x), Some(FALSE)),
     Window(Some(s_bar), Some(s_foo), None, Some(s_x), Some(FALSE))}

\* the client lists a poll of a restore run may observe
RestoreWindows(class) == Window(None, Some(class), None, Some(s_x), Some(FALSE))
RestoreObservations ==
    {<<>>,
     <<RestoreWindows(s_Alacritty)>>,
     <<RestoreWindows(s_firefox), RestoreWindows(s_Alacritty)>>,
     <<RestoreWindows(s_Alacritty), RestoreWindows(s_firefox)>>,
     <<RestoreWindows(s_chromium), RestoreWindows(s_Alacritty)>>}

\* the client lists hyprjson("clients") may return to the waiter
Observations ==
    IF comp = "restore" THEN RestoreObservations ELSE SeqsOf(WaitWindows, 0, MaxWindows)

WaitInit ==
    /\ comp = "wait" /\ EntryIdle /\ PwaIdle /\ SaveIdle /\ PlaceIdle
    /\ CmdIdle /\ CommandIdle
    /\ desired \in SeqsOf(WaitEntries, 1, MaxEntries)
    /\ now = <<>>
    /\ waitPc = "test" /\ clock = 0 /\ deadline = WAIT_SECONDS

WaitOthers == <<comp, entryVars, pwaVars, saveVars, cmdVars, restoreVars, desired,
                placeVars>>

\* `while time.time() < deadline` holds and current_clients() returns a client list;
\* the query takes some time
WaitPoll ==
    /\ waitPc = "test" /\ clock < deadline
    /\ hyprctl
    /\ \E ws \in Observations, d \in 0..MaxPollTime :
        /\ now' = Addressed(ws)
        /\ clock' = clock + d
    /\ waitPc' = "polled"
    /\ UNCHANGED <<deadline, WaitOthers>>

\* `while time.time() < deadline` holds and hyprjson raises: current_clients() is []
WaitPollFails ==
    /\ waitPc = "test" /\ clock < deadline
    /\ \E d \in 0..MaxPollTime : clock' = clock + d
    /\ now' = <<>>
    /\ waitPc' = "polled"
    /\ UNCHANGED <<deadline, WaitOthers>>

\* a mutant of the return at the deadline: an unsatisfied wait returns no window
WaitExpire_returns_nothing ==
    /\ waitPc = "test" /\ clock >= deadline
    /\ waitPc' = "done"
    /\ now' = <<>>
    /\ UNCHANGED <<clock, deadline, WaitOthers>>

\* `while time.time() < deadline` fails: return now
WaitExpire ==
    /\ waitPc = "test" /\ clock >= deadline
    /\ waitPc' = "done"
    /\ UNCHANGED <<now, clock, deadline, WaitOthers>>

\* ok: break, return now
WaitBreak ==
    /\ waitPc = "polled" /\ wait_ok(desired, now)
    /\ waitPc' = "done"
    /\ UNCHANGED <<now, clock, deadline, WaitOthers>>

\* not ok: time.sleep(1), back to the while condition
WaitSleep ==
    /\ waitPc = "polled" /\ ~wait_ok(desired, now)
    /\ clock' = clock + sleep_interval
    /\ waitPc' = "test"
    /\ UNCHANGED <<now, deadline, WaitOthers>>

WaitNext == WaitPoll \/ WaitPollFails \/ WaitExpire \/ WaitBreak \/ WaitSleep

SpecWait == WaitInit /\ [][WaitNext]_vars

\* the program is one thread that runs to completion: an enabled step is taken
SpecWaitFair == SpecWait /\ WF_vars(WaitNext)

-----------------------------------------------------------------------------
(* Claims about wait_for_windows, checked under SpecWait / SpecWaitFair *)

\* C7: for every list of saved entries and every behaviour of the client list
\* (targets never reached, every query failing), wait_for_windows eventually
\* returns, and a poll is started only while the clock is before the deadline.
C7_WaiterTerminates ==
    /\ <>(waitPc = "done")
    /\ [][(waitPc = "test" /\ waitPc' = "polled") => clock < deadline]_vars

\* C7 witness: wait_for_windows returned at the deadline with the target unmet,
\* its last query having failed or found nothing.
C7_Witness ==
    /\ waitPc = "done" /\ clock >= deadline /\ now = <<>>
    /\ Len(desired) = 2

\* every identity key of the saved entries has at least as many observed windows as
\* saved entries
TargetMet ==
    \A i \in 1..Len(desired) :
        Cardinality({w \in 1..Len(now) : client_key(now[w]) = Some(best_key(desired[i]))})
            >= Cardinality({j \in 1..Len(desired) : best_key(desired[j]) = best_key(desired[i])})

\* C8: if a poll observes, for every identity key of the saved entries, at least as
\* many windows as saved entries with that key, wait_for_windows returns the result
\* of that very poll: its next step is the return, with no sleep and no further poll.
C8_PromptReturn ==
    [][(waitPc = "polled" /\ TargetMet) =>
            (waitPc' = "done" /\ now' = now /\ clock' = clock)]_vars

\* C8 witness: wait_for_windows returned before the deadline with two saved entries
\* of one key and two windows of that key observed.
C8_Witness ==
    /\ waitPc = "done" /\ clock < deadline /\ TargetMet
    /\ Len(desired) = 2 /\ best_key(desired[1]) = best_key(desired[2])
    /\ Len(now) = 2

-----------------------------------------------------------------------------
(* The placement matcher, commons.py *)

\* a mutant of the score: an equal floating flag earns nothing
score_no_floating(entry, c) ==
    LET title == Lower(entry.title)
        ct == Lower(IF TruthySeq(c.title) THEN Val(c.title) ELSE <<>>)
    IN  1 + (IF title # <<>> /\ ct # <<>> /\ (IsSubstr(title, ct) \/ IsSubstr(ct, title))
             THEN 2 ELSE 0)

\* a mutant of the score: a matching title earns nothing
score_no_title(entry, c) ==
    1 + (IF c.floating = Some(entry.floating) THEN 1 ELSE 0)

\* a mutant of the score: a candidate starts at -1, the initial best score
score_base_low(entry, c) ==
    LET title == Lower(entry.title)
        ct == Lower(IF TruthySeq(c.title) THEN Val(c.title) ELSE <<>>)
    IN  -1 + (IF title # <<>> /\ ct # <<>> /\ (IsSubstr(title, ct) \/ IsSubstr(ct, title))
              THEN 2 ELSE 0)
           + (IF c.floating = Some(entry.floating) THEN 1 ELSE 0)

\* match_window, the score of a candidate c with the entry's identity key
score(entry, c) ==
    LET title == Lower(entry.title)
        ct == Lower(IF TruthySeq(c.title) THEN Val(c.title) ELSE <<>>)
    IN  1 + (IF title # <<>> /\ ct # <<>> /\ (IsSubstr(title, ct) \/ IsSubstr(ct, title))
             THEN 2 ELSE 0)
          + (IF c.floating = Some(entry.floating) THEN 1 ELSE 0)

\* match_window, the scoring loop from index idx on: the index of `best` (0: None)
RECURSIVE scoring_pass(_, _, _, _, _, _)
scoring_pass(entry, observed, pool, idx, best, best_score) ==
    IF idx > Len(observed) THEN best
    ELSE IF idx \notin pool \/ client_key(observed[idx]) # Some(best_key(entry))
    THEN scoring_pass(entry, observed, pool, idx + 1, best, best_score)
    ELSE IF score(entry, observed[idx]) > best_score
    THEN scoring_pass(entry, observed, pool, idx + 1, idx, score(entry, observed[idx]))
    ELSE scoring_pass(entry, observed, pool, idx + 1, best, best_score)

\* a mutant of the fallback pass: the first unclaimed window, whatever its key
fallback_pass_any_window(entry, observed, pool) ==
    IF pool = {} THEN 0 ELSE Min(pool)

\* match_window, the fallback pass: the first unclaimed window of the same key
fallback_pass(entry, observed, pool) ==
    LET same == {idx \in pool : client_key(observed[idx]) = Some(best_key(entry))}
    IN  IF same = {} THEN 0 ELSE Min(same)

\* a mutant of match_window: a candidate scoring below 3 is not returned
match_window_score_floor(entry, observed, pool) ==
    LET best == scoring_pass(entry, observed, pool, 1, 0, -1)
    IN  IF best # 0 /\ score(entry, observed[best]) >= 3 THEN best ELSE 0

\* match_window(entry, now, unmatched): the index of the window matched, 0 for None
match_window(entry, observed, pool) ==
    LET best == scoring_pass(entry, observed, pool, 1, 0, -1)
    IN  IF best = 0 THEN fallback_pass(entry, observed, pool) ELSE best

\* str(n), kept as the number
Str(n) == <<"str", n>>

\* a mutant of the dispatches: the geometry is restored whatever the floating flag
placement_commands_geometry_always(e, c) ==
    LET want_float == e.floating
        cur_float == c.floating = Some(TRUE)
    IN  << <<"focuswindow", <<"address", c.address>> >>,
           <<"movetoworkspacesilent", Str(e.workspace)>> >>
        \o (IF want_float # cur_float THEN << <<"togglefloating">> >> ELSE <<>>)
        \o << <<"resizewindowpixel", "exact", Str(e.size[1]), Str(e.size[2])>>,
               <<"movewindowpixel", "exact", Str(e.at[1]), Str(e.at[2])>> >>

\* place_windows, the dispatches for entry e matched to window c, in order
placement_commands(e, c) ==
    LET want_float == e.floating
        cur_float == c.floating = Some(TRUE)
    IN  << <<"focuswindow", <<"address", c.address>> >>,
           <<"movetoworkspacesilent", Str(e.workspace)>> >>
        \o (IF want_float # cur_float THEN << <<"togglefloating">> >> ELSE <<>>)
        \o (IF want_float /\ e.at # <<>> /\ e.size # <<>>
            THEN << <<"resizewindowpixel", "exact", Str(e.size[1]), Str(e.size[2])>>,
                    <<"movewindowpixel", "exact", Str(e.at[1]), Str(e.at[2])>> >>
            ELSE <<>>)

-----------------------------------------------------------------------------
(* SpecPlace: place_windows on bounded lists of saved entries and observed windows *)

PlaceEntries ==
    {SavedEntry(None, s_foo, t, fl) : t \in {s_x, s_y}, fl \in BOOLEAN}
    \cup {SavedEntry(Some(s_bar), s_foo, s_x, FALSE), SavedEntry(None, s_foo, <<>>, FALSE)}

PlaceWindows ==
    {Window(None, Some(s_foo), None, Some(t), Some(fl)) : t \in {s_x, s_y}, fl \in BOOLEAN}
    \cup {Window(None, Some(s_foo), None, Some(s_Xy), Some(FALSE)),
          Window(None, Some(s_foo), None, Some(<<>>), Some(FALSE)),
          Window(Some(s_bar), Some(s_foo), None, Some(s_x), Some(FALSE)),
          Window(None, Some(<<>>), Some(s_foo), Some(s_x), None)}

PlaceInit ==
    /\ comp = "place" /\ EntryIdle /\ PwaIdle /\ SaveIdle /\ WaitIdle
    /\ CmdIdle /\ CommandIdle
    /\ desired \in SeqsOf(PlaceEntries, 1, MaxEntries)
    /\ now \in {Addressed(ws) : ws \in SeqsOf(PlaceWindows, 0, MaxWindows)}
    /\ placePc = "loop" /\ placeIdx = 0
    /\ unmatched = 1..Len(now)
    /\ placed = 0 /\ cmds = <<>> /\ hist = <<>>

PlaceOthers == <<comp, entryVars, pwaVars, saveVars, cmdVars, restoreVars, desired,
                 now, waitVars>>

\* a mutant of the matched iteration: the window is not removed from the pool
PlaceMatched_keeps_window ==
    /\ placePc = "loop" /\ placeIdx < Len(desired)
    /\ LET e == desired[placeIdx + 1]
           idx == match_window(e, now, unmatched)
       IN  /\ idx # 0
           /\ cmds' = cmds \o placement_commands(e, now[idx])
           /\ placed' = placed + 1
           /\ hist' = Append(hist, [win |-> idx, pool |-> unmatched])
    /\ placeIdx' = placeIdx + 1
    /\ UNCHANGED <<placePc, unmatched, PlaceOthers>>

\* place_windows, one iteration of `for e in desired` that finds a window
PlaceMatched ==
    /\ placePc = "loop" /\ placeIdx < Len(desired)
    /\ LET e == desired[placeIdx + 1]
           idx == match_window(e, now, unmatched)
       IN  /\ idx # 0
           /\ unmatched' = unmatched \ {idx}
           /\ cmds' = cmds \o placement_commands(e, now[idx])
           /\ placed' = placed + 1
           /\ hist' = Append(hist, [win |-> idx, pool |-> unmatched])
    /\ placeIdx' = placeIdx + 1
    /\ UNCHANGED <<placePc, PlaceOthers>>

\* place_windows, one iteration of `for e in desired` that finds none: continue
PlaceUnmatched ==
    /\ placePc = "loop" /\ placeIdx < Len(desired)
    /\ match_window(desired[placeIdx + 1], now, unmatched) = 0
    /\ hist' = Append(hist, [win |-> 0, pool |-> unmatched])
    /\ placeIdx' = placeIdx + 1
    /\ UNCHANGED <<placePc, unmatched, cmds, placed, PlaceOthers>>

\* place_windows: return placed
PlaceReturn ==
    /\ placePc = "loop" /\ placeIdx = Len(desired)
    /\ placePc' = "done"
    /\ UNCHANGED <<placeIdx, unmatched, cmds, placed, hist, PlaceOthers>>

PlaceNext == PlaceMatched \/ PlaceUnmatched \/ PlaceReturn

SpecPlace == PlaceInit /\ [][PlaceNext]_vars

(* Claims about place_windows, checked under SpecPlace *)

\* window c agrees with entry e on identity, title (both titles non-empty, one a
\* case-insensitive substring of the other: the matcher's title test) and floating
AgreesFully(e, c) ==
    /\ client_key(c) = Some(best_key(e))
    /\ c.title # None /\ Val(c.title) # <<>> /\ e.title # <<>>
    /\ \/ IsSubstr(Lower(e.title), Lower(Val(c.title)))
       \/ IsSubstr(Lower(Val(c.title)), Lower(e.title))
    /\ c.floating = Some(e.floating)

C6_A == SavedEntry(None, s_foo, s_x, FALSE)
C6_B == SavedEntry(None, s_foo, s_y, TRUE)
C6_W1 == Window(None, Some(s_foo), None, Some(s_x), Some(FALSE))
C6_W2 == Window(None, Some(s_foo), None, Some(s_y), Some(TRUE))

\* window c agrees with entry e on identity, on the title read as equality, and on
\* the floating state
AgreesExactly(e, c) ==
    /\ client_key(c) = Some(best_key(e))
    /\ c.title = Some(e.title)
    /\ c.floating = Some(e.floating)

\* the scenario of C6: A is paired with W1 and B with W2, in either observed order
C6_Scenario ==
    (placePc = "done" /\ desired = <<C6_A, C6_B>>
        /\ now \in {Addressed(<<C6_W1, C6_W2>>), Addressed(<<C6_W2, C6_W1>>)}) =>
    /\ now[hist[1].win] \in {[C6_W1 EXCEPT !.address = Some(a)] : a \in 1..2}
    /\ now[hist[2].win] \in {[C6_W2 EXCEPT !.address = Some(a)] : a \in 1..2}
    /\ placed = 2

\* C6 as stated, agreement on title read as equal titles: in the scenario A is paired
\* with W1 and B with W2, and whenever exactly one unclaimed window of an entry's
\* identity has the entry's title and its floating state, that window is the one
\* matched, wherever it stands in the observed list.
C6_Original ==
    /\ C6_Scenario
    /\ \A j \in 1..Len(hist) :
        \A w \in hist[j].pool :
            (/\ AgreesExactly(desired[j], now[w])
             /\ \A v \in hist[j].pool \ {w} : ~AgreesExactly(desired[j], now[v]))
                => hist[j].win = w

\* C6: with saved entries [A(foo, x, tiled), B(foo, y, floating)] and observed
\* windows W1(foo, x, tiled), W2(foo, y, floating) in either order, place_windows
\* pairs A with W1 and B with W2; in general, whenever exactly one unclaimed window of
\* an entry's identity has the entry's floating state and a title that matches the
\* entry's in the matcher's sense (both non-empty, one a case-insensitive substring of
\* the other), that window is the one matched, wherever it stands in the observed list.
C6_MatcherDeterminism ==
    /\ C6_Scenario
    /\ \A j \in 1..Len(hist) :
        \A w \in hist[j].pool :
            (/\ AgreesFully(desired[j], now[w])
             /\ \A v \in hist[j].pool \ {w} : ~AgreesFully(desired[j], now[v]))
                => hist[j].win = w

\* C6 witness: the scenario with the observed list in the order [W2, W1]: A was
\* matched to the second window and B to the first.
C6_Witness ==
    /\ placePc = "done" /\ desired = <<C6_A, C6_B>>
    /\ now = Addressed(<<C6_W2, C6_W1>>)
    /\ hist[1].win = 2 /\ hist[2].win = 1

-----------------------------------------------------------------------------
(* The launcher, commons.py. A command is a str, modelled as a sequence of tokens:
   literal words and the placeholders {cwd} and {url}; the empty sequence is the
   empty string. A command map [pwa, apps, flat] holds the [pwa] and [apps] tables
   and the top-level string entries; a class or app id that is itself named pwa or
   apps is not among the names tried. *)

Lit(w) == [t |-> "lit", v |-> <<w>>]
CwdToken == [t |-> "{cwd}", v |-> <<>>]
UrlToken == [t |-> "{url}", v |-> <<>>]
\* the text a placeholder was replaced by
Subst(text) == [t |-> "subst", v |-> text]

\* email.quoprimime.quote(c) is _QUOPRI_MAP[ord(c)], "=%02X" % ord(c): defined for a
\* str of length 1 only, ord() raises TypeError for any other length
quote(c) ==
    IF Len(c) # 1 THEN [ok |-> FALSE, text |-> <<>>]
    ELSE [ok |-> TRUE,
          text |-> IF c[1] = "/" THEN <<"=", "2", "F">> ELSE <<"=", "ord", c[1]>>]

\* str.replace(token, text)
Replace(cmd, token, text) ==
    [i \in 1..Len(cmd) |-> IF cmd[i] = token THEN Subst(text) ELSE cmd[i]]

\* a mutant of launch: a failing Popen is caught and the launch counts as done
launch_popen_guarded(cmd, entry, home, can_start) ==
    LET with_cwd == \E i \in 1..Len(cmd) : cmd[i] = CwdToken
        q1 == quote(IF TruthySeq(entry.cwd) THEN Val(entry.cwd) ELSE home)
        cmd1 == IF with_cwd /\ q1.ok THEN Replace(cmd, CwdToken, q1.text) ELSE cmd
        with_url == \E i \in 1..Len(cmd1) : cmd1[i] = UrlToken
        q2 == quote(<<>>)
        cmd2 == IF with_url /\ q2.ok THEN Replace(cmd1, UrlToken, q2.text) ELSE cmd1
    IN  IF with_cwd /\ ~q1.ok THEN [ok |-> FALSE, exec |-> None, err |-> "TypeError"]
        ELSE IF with_url /\ ~q2.ok THEN [ok |-> FALSE, exec |-> None, err |-> "TypeError"]
        ELSE IF ~can_start THEN [ok |-> TRUE, exec |-> None, err |-> "none"]
        ELSE [ok |-> TRUE, exec |-> Some(cmd2), err |-> "none"]

\* launch(cmd, entry): [ok, exec, err]; exec is the command of the execute request
\* handed to hyprctl. home is os.path.expanduser("~"), can_start tells whether the
\* hyprctl binary can be started (Popen raises FileNotFoundError when it cannot)
launch(cmd, entry, home, can_start) ==
    LET with_cwd == \E i \in 1..Len(cmd) : cmd[i] = CwdToken
        q1 == quote(IF TruthySeq(entry.cwd) THEN Val(entry.cwd) ELSE home)
        cmd1 == IF with_cwd /\ q1.ok THEN Replace(cmd, CwdToken, q1.text) ELSE cmd
        with_url == \E i \in 1..Len(cmd1) : cmd1[i] = UrlToken
        q2 == quote(<<>>)
        cmd2 == IF with_url /\ q2.ok THEN Replace(cmd1, UrlToken, q2.text) ELSE cmd1
    IN  IF with_cwd /\ ~q1.ok THEN [ok |-> FALSE, exec |-> None, err |-> "TypeError"]
        ELSE IF with_url /\ ~q2.ok THEN [ok |-> FALSE, exec |-> None, err |-> "TypeError"]
        ELSE IF ~can_start THEN [ok |-> FALSE, exec |-> None, err |-> "FileNotFoundError"]
        ELSE [ok |-> TRUE, exec |-> Some(cmd2), err |-> "none"]

\* truthiness of a looked-up command: present and not the empty string
TruthyCmd(o) == o # None /\ Val(o) # <<>>

\* launch_applications_with_logging, the fallback loop over (class_name, app_id):
\* the entry of the first name that is a top-level key of the map
flat_command(entry, map) ==
    IF entry.class_name # <<>> /\ Has(map.flat, entry.class_name)
    THEN Lookup(map.flat, entry.class_name)
    ELSE IF TruthySeq(entry.app_id) /\ Has(map.flat, Val(entry.app_id))
    THEN Lookup(map.flat, Val(entry.app_id))
    ELSE None

\* a mutant of the resolution: the apps table is consulted for every kind but PWA
launcher_command_any_kind(entry, map) ==
    LET cmd == IF entry.kind = WindowKind_PWA /\ TruthySeq(entry.pwa_key)
               THEN Lookup(map.pwa, Val(entry.pwa_key))
               ELSE Lookup(map.apps, entry.class_name)
    IN  IF TruthyCmd(cmd) THEN cmd ELSE flat_command(entry, map)

\* launch_applications_with_logging, the command of one entry: None or a falsy
\* command when there is no launcher for it
launcher_command(entry, map) ==
    LET cmd == IF entry.kind = WindowKind_PWA /\ TruthySeq(entry.pwa_key)
               THEN Lookup(map.pwa, Val(entry.pwa_key))
               ELSE IF entry.kind \in {WindowKind_APPLICATION, WindowKind_TERMINAL}
               THEN Lookup(map.apps, entry.class_name)
               ELSE None
    IN  IF TruthyCmd(cmd) THEN cmd ELSE flat_command(entry, map)

-----------------------------------------------------------------------------
(* restore_session, commands/restore.py *)

\* a snapshot file: present and a JSON object (clients: None when the object has no
\* "clients" key, else <<the list of client records>>), present and not valid JSON,
\* present and not readable, or absent
SnapshotFile(kind, client_data) == [kind |-> kind, clients |-> client_data]

\* snapshot.get("clients", [])
client_data_of(file) == IF file.clients = None THEN <<>> ELSE Val(file.clients)

\* a mutant of the loading: the records before the first bad one are kept
load_entries_valid_prefix(client_data) ==
    LET bad == {i \in 1..Len(client_data) : ~from_dict(client_data[i]).ok}
        n == IF bad = {} THEN Len(client_data) ELSE Min(bad) - 1
    IN  [ok |-> TRUE,
         desired |-> [i \in 1..n |-> Val(from_dict(client_data[i]).entry)]]

\* [ClientEntry.from_dict(client) for client in client_data]: [ok, desired]
load_entries(client_data) ==
    IF \A i \in 1..Len(client_data) : from_dict(client_data[i]).ok
    THEN [ok |-> TRUE,
          desired |-> [i \in 1..Len(client_data) |-> Val(from_dict(client_data[i]).entry)]]
    ELSE [ok |-> FALSE, desired |-> <<>>]

\* a mutant of the loading: an empty client list is not an error
load_snapshot_empty_ok(file) ==
    IF file.kind # "valid" THEN [ok |-> FALSE, desired |-> <<>>]
    ELSE load_entries(client_data_of(file))

\* restore_session up to `desired`: [ok, desired]; not ok when the file is absent,
\* open or json.load raises, the client list is empty or absent, or from_dict raises
load_snapshot(file) ==
    IF file.kind # "valid" THEN [ok |-> FALSE, desired |-> <<>>]
    ELSE IF client_data_of(file) = <<>> THEN [ok |-> FALSE, desired |-> <<>>]
    ELSE load_entries(client_data_of(file))

(* SpecRestore: one restore over a few snapshot files and command maps *)

\* the saved entries tried: what save stores for a Firefox window, a Chromium
\* window and an Alacritty terminal with a working directory
Entry_firefox == SavedEntry(None, s_firefox, s_x, FALSE)
Entry_chromium == [SavedEntry(None, s_chromium, s_x, FALSE) EXCEPT !.kind = WindowKind_BROWSER]
Entry_terminal ==
    [SavedEntry(None, s_Alacritty, s_x, FALSE) EXCEPT
        !.kind = WindowKind_TERMINAL, !.pid = Some(42), !.cwd = Some(s_cwd)]
\* a saved window without class and app-id: its identity key is the generic one
Entry_anonymous == SavedEntry(None, <<>>, s_x, FALSE)
\* a record from_dict rejects: the workspace is 0
BadRecord == [to_dict(Entry_firefox) EXCEPT !["workspace"] = 0]
\* more records from_dict rejects: an unknown kind, no title, a position of three
\* numbers, a PWA without key
BadRecords ==
    {[to_dict(Entry_firefox) EXCEPT !["kind"] = "bogus"],
     [k \in DOMAIN to_dict(Entry_firefox) \ {"title"} |-> to_dict(Entry_firefox)[k]],
     [to_dict(Entry_firefox) EXCEPT !["at"] = <<7, 0, 7>>],
     [to_dict(Entry_firefox) EXCEPT !["kind"] = KindValue(WindowKind_PWA)]}

RestoreSnapshots ==
    {SnapshotFile("missing", None), SnapshotFile("unreadable", None),
     SnapshotFile("malformed", None), SnapshotFile("valid", None),
     SnapshotFile("valid", Some(<<>>)),
     SnapshotFile("valid", Some(<<BadRecord>>)),
     SnapshotFile("valid", Some(<<to_dict(Entry_firefox), BadRecord>>)),
     SnapshotFile("valid", Some(<<to_dict(Entry_firefox)>>)),
     SnapshotFile("valid", Some(<<to_dict(Entry_firefox), to_dict(Entry_terminal)>>)),
     SnapshotFile("valid", Some(<<to_dict(Entry_chromium), to_dict(Entry_terminal)>>)),
     SnapshotFile("valid", Some(<<to_dict(Entry_anonymous), to_dict(Entry_terminal)>>))}
    \cup {SnapshotFile("valid", Some(<<to_dict(Entry_firefox), r>>)) : r \in BadRecords}

cmd_firefox == <<Lit("firefox")>>
cmd_chromium == <<Lit("chromium")>>
cmd_alacritty == <<Lit("alacritty")>>
cmd_alacritty_cwd == <<Lit("alacritty"), Lit("--working-directory"), CwdToken>>

\* the command maps tried: a launcher for every entry (the terminal's with or
\* without {cwd}), a map with a launcher for the terminal only, and the empty map
RestoreMaps ==
    {[pwa |-> <<>>, apps |-> <<<<s_firefox, cmd_firefox>>, <<s_Alacritty, t>>>>,
      flat |-> <<<<s_chromium, cmd_chromium>>>>] : t \in {cmd_alacritty, cmd_alacritty_cwd}}
    \cup {[EmptyToml EXCEPT !.apps = <<<<s_Alacritty, cmd_alacritty>>>>], EmptyToml}

RestoreTomlFiles ==
    {TomlFile("valid", m) : m \in RestoreMaps}
    \cup {TomlFile("malformed", [EmptyToml EXCEPT !.apps = <<<<s_Alacritty, cmd_alacritty>>>>]),
          TomlFile("missing", EmptyToml), TomlFile("unreadable", EmptyToml)}

\* os.path.expanduser("~")
s_home == <<"/", "h">>
Homes == {<<"/">>, s_home}

RestoreInit ==
    /\ comp = "restore" /\ EntryIdle /\ PwaIdle /\ SaveIdle /\ RestoreIdle /\ CmdIdle
    /\ restorePc = "start" /\ inputFile = None /\ appmap = EmptyToml
    /\ LaunchIdle /\ calls = NoCalls /\ report = <<>>

RestoreOthers == <<comp, entryVars, pwaVars, saveVars>>

\* restore_session up to the branch on --dry-run: it loads the snapshot and the
\* command map; with --dry-run it prints the preview and exits, otherwise it calls
\* the launcher. A failure on the way ends the invocation.
RestoreStart ==
    /\ comp = "restore" /\ restorePc = "start"
    /\ \E file \in RestoreSnapshots, toml \in RestoreTomlFiles, dry \in BOOLEAN,
          present \in BOOLEAN :
        LET snap == load_snapshot(file)
            map == read_toml(toml)
            loaded == snap.ok /\ map.ok
        IN  /\ inputFile' = Some(file)
            /\ apps_toml' = Some(toml)
            /\ dry_run' = dry
            /\ hyprctl' = present
            /\ desired' = snap.desired
            /\ appmap' = IF loaded THEN map.data ELSE EmptyToml
            /\ restorePc' = IF loaded /\ ~dry THEN "launch" ELSE "exit"
            /\ exit_code' = IF ~loaded THEN Some(EX_SOFTWARE)
                            ELSE IF dry THEN Some(exit_from_try(EX_OK))
                            ELSE None
            /\ calls' = IF loaded /\ ~dry THEN [calls EXCEPT !.launch = @ + 1] ELSE calls
    /\ UNCHANGED <<launchVars, report, now, waitVars, placeVars, RestoreOthers>>

\* launch_applications_with_logging, an iteration for an entry with no launcher:
\* it warns and continues
LaunchSkip ==
    /\ restorePc = "launch" /\ launchIdx < Len(desired)
    /\ ~TruthyCmd(launcher_command(desired[launchIdx + 1], appmap))
    /\ launchIdx' = launchIdx + 1
    /\ UNCHANGED <<restorePc, inputFile, appmap, launched, execs, calls, report, cmdVars,
                   desired, now, waitVars, placeVars, RestoreOthers>>

\* a mutant of the launching iteration: the directory used for {cwd} is stored in
\* the entry
LaunchDispatch_sets_cwd ==
    /\ restorePc = "launch" /\ launchIdx < Len(desired)
    /\ TruthyCmd(launcher_command(desired[launchIdx + 1], appmap))
    /\ \E home \in Homes :
        LET e == desired[launchIdx + 1]
            r == launch(Val(launcher_command(e, appmap)), e, home, hyprctl)
        IN  /\ r.ok
            /\ execs' = IF r.exec = None THEN execs ELSE Append(execs, Val(r.exec))
            /\ desired' = [desired EXCEPT ![launchIdx + 1].cwd =
                                IF TruthySeq(e.cwd) THEN e.cwd ELSE Some(home)]
    /\ launched' = launched + 1
    /\ launchIdx' = launchIdx + 1
    /\ UNCHANGED <<restorePc, inputFile, appmap, calls, report, cmdVars,
                   now, waitVars, placeVars, RestoreOthers>>

\* launch_applications_with_logging, an iteration that launches the entry
LaunchDispatch ==
    /\ restorePc = "launch" /\ launchIdx < Len(desired)
    /\ TruthyCmd(launcher_command(desired[launchIdx + 1], appmap))
    /\ \E home \in Homes :
        LET e == desired[launchIdx + 1]
            r == launch(Val(launcher_command(e, appmap)), e, home, hyprctl)
        IN  /\ r.ok
            /\ execs' = IF r.exec = None THEN execs ELSE Append(execs, Val(r.exec))
    /\ launched' = launched + 1
    /\ launchIdx' = launchIdx + 1
    /\ UNCHANGED <<restorePc, inputFile, appmap, calls, report, cmdVars,
                   desired, now, waitVars, placeVars, RestoreOthers>>

\* launch_applications_with_logging, an iteration in which launch raises: the
\* exception leaves the launcher and reaches the except branch of restore_session
LaunchRaise ==
    /\ restorePc = "launch" /\ launchIdx < Len(desired)
    /\ TruthyCmd(launcher_command(desired[launchIdx + 1], appmap))
    /\ \E home \in Homes :
        LET e == desired[launchIdx + 1]
        IN  ~launch(Val(launcher_command(e, appmap)), e, home, hyprctl).ok
    /\ restorePc' = "exit"
    /\ exit_code' = Some(EX_SOFTWARE)
    /\ UNCHANGED <<inputFile, appmap, launchVars, calls, report, dry_run, apps_toml,
                   hyprctl, desired, now, waitVars, placeVars, RestoreOthers>>

\* the launcher returns; restore_session prints the ratio, sets the deadline and
\* calls wait_for_windows
LaunchReturn ==
    /\ restorePc = "launch" /\ launchIdx = Len(desired)
    /\ report' = Append(report, <<"launched", launched, Len(desired)>>)
    /\ deadline' = clock + WAIT_SECONDS
    /\ calls' = [calls EXCEPT !.wait = @ + 1]
    /\ waitPc' = "test"
    /\ restorePc' = "wait"
    /\ UNCHANGED <<inputFile, appmap, launchVars, cmdVars, desired, now, clock,
                   placeVars, RestoreOthers>>

\* a mutant of the call of place_windows: it does not await the waiter's return
RestorePlace_early ==
    /\ restorePc = "wait"
    /\ calls' = [calls EXCEPT !.place = @ + 1]
    /\ placePc' = "loop"
    /\ unmatched' = 1..Len(now)
    /\ restorePc' = "place"
    /\ UNCHANGED <<inputFile, appmap, launchVars, report, cmdVars, desired, now,
                   waitVars, placeIdx, placed, cmds, hist, RestoreOthers>>

\* wait_for_windows has returned; restore_session calls place_windows(desired, now)
RestorePlace ==
    /\ restorePc = "wait" /\ waitPc = "done"
    /\ calls' = [calls EXCEPT !.place = @ + 1]
    /\ placePc' = "loop"
    /\ unmatched' = 1..Len(now)
    /\ restorePc' = "place"
    /\ UNCHANGED <<inputFile, appmap, launchVars, report, cmdVars, desired, now,
                   waitVars, placeIdx, placed, cmds, hist, RestoreOthers>>

\* place_windows has returned; restore_session prints the ratio and raises
\* typer.Exit(EX_OK) inside its try block
RestoreExit ==
    /\ restorePc = "place" /\ placePc = "done"
    /\ report' = Append(report, <<"placed", placed, Len(desired)>>)
    /\ exit_code' = Some(exit_from_try(EX_OK))
    /\ restorePc' = "exit"
    /\ UNCHANGED <<inputFile, appmap, launchVars, calls, dry_run, apps_toml, hyprctl,
                   desired, now, waitVars, placeVars, RestoreOthers>>

RestoreNext ==
    \/ RestoreStart
    \/ LaunchSkip \/ LaunchDispatch \/ LaunchRaise \/ LaunchReturn
    \/ WaitPoll \/ WaitPollFails \/ WaitExpire \/ WaitBreak \/ WaitSleep
    \/ RestorePlace
    \/ PlaceMatched \/ PlaceUnmatched \/ PlaceReturn
    \/ RestoreExit

SpecRestore == RestoreInit /\ [][RestoreNext]_vars

\* save and restore, for the statements about both commands
CommandsInit == SaveInit \/ RestoreInit
CommandsNext == SaveNext \/ RestoreNext
SpecCommands == CommandsInit /\ [][CommandsNext]_vars

-----------------------------------------------------------------------------
(* Claims about restore_session and save_session *)

\* a restore run, without --dry-run, of the two-entry snapshot save produces for a
\* browser window and a terminal with a working directory, with a command map that
\* has a launcher for both entries, hyprctl being available
TwoEntryRestore ==
    /\ comp = "restore" /\ ~dry_run /\ hyprctl
    /\ inputFile # None /\ Val(inputFile).kind = "valid"
    /\ Val(inputFile).clients \in
        {Some(<<to_dict(Entry_firefox), to_dict(Entry_terminal)>>),
         Some(<<to_dict(Entry_chromium), to_dict(Entry_terminal)>>)}
    /\ apps_toml # None /\ Val(apps_toml).kind = "valid"
    /\ \A i \in 1..Len(desired) : TruthyCmd(launcher_command(desired[i], Val(apps_toml).data))

\* C11: restoring the two-entry snapshot (browser window, terminal with cwd) with a
\* command map that maps both entries, the terminal's command possibly using {cwd},
\* dispatches two execute requests and reports 2/2 launched, and reports 2/2 placed
\* once a window of each identity was observed.
C11_EndToEndRestore ==
    (TwoEntryRestore /\ restorePc = "exit") =>
        /\ Len(execs) = 2
        /\ Len(report) >= 1 /\ report[1] = <<"launched", 2, 2>>
        /\ (\A i \in 1..2 : \E w \in 1..Len(now) : client_key(now[w]) = Some(best_key(desired[i])))
            => (Len(report) = 2 /\ report[2] = <<"placed", 2, 2>>)

\* a save in which no step failed: the data was built and, unless --dry-run, written
SaveSucceeded == comp = "save" /\ savePc = "done" /\ (dry_run \/ outFile # None)

\* a restore in which no step failed: the preview was printed, or the launcher, the
\* waiter and the placer have returned
RestoreSucceeded ==
    /\ comp = "restore" /\ restorePc = "exit"
    /\ inputFile # None /\ load_snapshot(Val(inputFile)).ok
    /\ apps_toml # None /\ read_toml(Val(apps_toml)).ok
    /\ (dry_run \/ Len(report) = 2)

\* C12: a save or restore invocation (dry-run or not) in which no step fails
\* terminates with exit code 0: the caller observes the exit raised at the end of
\* the command body.
C12_SuccessExitsZero ==
    (SaveSucceeded \/ RestoreSucceeded) => exit_code = Some(EX_OK)

\* the snapshot file is missing, is not valid JSON, or has an empty or absent
\* client list
InputError ==
    /\ comp = "restore" /\ inputFile # None
    /\ \/ Val(inputFile).kind \in {"missing", "malformed"}
       \/ Val(inputFile).kind = "valid" /\ client_data_of(Val(inputFile)) = <<>>

\* restore has issued no execute request, no client-list poll and no placement
\* command, and has called neither the launcher, the waiter nor the placer
NoRestoreEffect ==
    /\ execs = <<>> /\ launched = 0
    /\ waitPc = "idle" /\ now = <<>>
    /\ placePc = "idle" /\ cmds = <<>>
    /\ calls = NoCalls

ConfigError ==
    /\ apps_toml # None
    /\ Val(apps_toml).kind \in {"missing", "unreadable"}

\* C14: when the command-map file is unreadable (a missing file included), save and
\* restore abort with a nonzero exit code; save has built and written no snapshot,
\* restore has launched nothing and called neither the waiter nor the placer: the
\* command does not go on with an empty command map.
C14_ConfigErrorsFatal ==
    ConfigError =>
        /\ exit_code # None /\ Val(exit_code) # 0
        /\ comp = "save" => (savePc = "raised" /\ outFile = None)
        /\ comp = "restore" => (restorePc = "exit" /\ NoRestoreEffect)

\* the saved entries for which launch_applications_with_logging resolves a command
ResolvedEntries ==
    SelectSeq(desired, LAMBDA e : TruthyCmd(launcher_command(e, appmap)))

\* the launcher was called and is not running any more
LauncherLeft == comp = "restore" /\ calls.launch = 1 /\ restorePc # "launch"

\* the execute request carries the command, placeholders apart
RequestOf(exec, cmd) ==
    /\ Len(exec) = Len(cmd)
    /\ \A j \in 1..Len(cmd) : cmd[j].t = "lit" => exec[j] = cmd[j]

\* C15: once the launcher is left there is exactly one execute request per saved
\* entry with a resolved command, in stored entry order, none for an entry without
\* one (entries after a mapping gap are still launched), and the launcher's count
\* is the number of requests issued, between 0 and the number of entries.
C15_LauncherCount ==
    LauncherLeft =>
        /\ Len(execs) = Len(ResolvedEntries)
        /\ \A i \in 1..Len(execs) : i <= Len(ResolvedEntries) =>
            RequestOf(execs[i], Val(launcher_command(ResolvedEntries[i], appmap)))
        /\ launched = Len(execs)
        /\ 0 <= launched /\ launched <= Len(desired)

\* restore has loaded the snapshot and the command map
RestoreLoaded ==
    /\ comp = "restore" /\ inputFile # None /\ apps_toml # None
    /\ load_snapshot(Val(inputFile)).ok /\ read_toml(Val(apps_toml)).ok

\* C16: restore with --dry-run issues no execute request, no client-list poll and
\* no placement command, and save with --dry-run writes no snapshot file; without
\* the flag a restore that has loaded its inputs has, when it ends, called the
\* launcher, the waiter and the placer exactly once each.
C16_DryRunNoEffect ==
    /\ (comp = "restore" /\ dry_run) => NoRestoreEffect
    /\ (comp = "save" /\ dry_run) => outFile = None
    /\ (RestoreLoaded /\ ~dry_run /\ restorePc = "exit")
        => calls = [launch |-> 1, wait |-> 1, place |-> 1]

\* the live window's raw record can be turned into a ClientEntry
Buildable(w) == _create_client_entry(w.client, cfg.pwa, w.realpath).ok

\* the live windows save is to record: not marked unmapped, and buildable
Recordable == SelectSeq(clients, LAMBDA w : IsMapped(w.client) /\ Buildable(w))

\* a save whose command map was loaded and whose client query was answered
SaveInputsLoaded ==
    /\ comp = "save" /\ savePc # "start"
    /\ apps_toml # None /\ read_toml(Val(apps_toml)).ok
    /\ hyprctl

\* C17: a live window whose raw record cannot be turned into a valid ClientEntry
\* (a window on a workspace with a non-positive id) is not fatal to save: with the
\* command map loaded and the client query answered, save completes and its
\* snapshot holds the entries of the other windows.
C17_GracefulSave ==
    SaveInputsLoaded =>
        /\ savePc = "done" /\ snapshot # None
        /\ Len(Val(snapshot)) = Len(Recordable)
        /\ \A i \in 1..Len(Recordable) : i <= Len(Val(snapshot)) =>
            Val(snapshot)[i] =
                to_dict(Val(_create_client_entry(Recordable[i].client, cfg.pwa,
                                                 Recordable[i].realpath).entry))

\* no command resolved for a saved entry holds a placeholder
PlainCommands ==
    \A i \in 1..Len(desired) :
        LET c == launcher_command(desired[i], appmap)
        IN  TruthyCmd(c) => \A j \in 1..Len(Val(c)) : Val(c)[j].t = "lit"

\* C18: when the hyprctl binary is absent the failure of an execute request is
\* absorbed where it occurs: the launcher goes through all the saved entries and
\* restore goes on to the waiting and the placement phase instead of aborting.
C18_DispatchFailuresAbsorbed ==
    (RestoreLoaded /\ ~dry_run /\ ~hyprctl /\ PlainCommands /\ restorePc = "exit") =>
        /\ launchIdx = Len(desired)
        /\ calls.wait = 1 /\ calls.place = 1

-----------------------------------------------------------------------------
(* Claims about the classifier's browser branch, checked under SpecEntry *)

\* the class the classifier sees: class, else initialClass
ClassifiedClass(args) == OrSeq(args.client.class, args.client.initialClass)

\* the keys of the table that the text contains, case ignored
KeysIn(text, pwa_map) ==
    {k \in Range(Keys(pwa_map)) : IsSubstr(Lower(k), Lower(text))}

\* the keys of the table contained in the window's title or in its class
KeysOfWindow(args) ==
    KeysIn(IF TruthySeq(args.client.title) THEN Val(args.client.title) ELSE <<>>,
           args.pwa_map)
    \cup KeysIn(Val(ClassifiedClass(args)), args.pwa_map)

\* the classifier was run on a window of a browser-engine class and built an entry
BrowserClassified ==
    /\ via = "classify" /\ ctorRes.ok
    /\ TruthySeq(ClassifiedClass(Val(ctorArgs)))
    /\ browser_class(Val(ClassifiedClass(Val(ctorArgs))))

\* C20: for a window of a browser-engine class the kind is WebApp with a longest
\* key among the table's keys that the window's title or class contains, whenever
\* there is such a key, and Browser (with no key) only when neither the title nor
\* the class contains a key of the table.
C20_BrowserBranch ==
    BrowserClassified =>
        LET e == Val(ctorRes.entry)
            ks == KeysOfWindow(Val(ctorArgs))
        IN  IF ks # {}
            THEN /\ e.kind = WindowKind_PWA
                 /\ e.pwa_key # None /\ Val(e.pwa_key) \in ks
                 /\ \A k \in ks : Len(k) <= Len(Val(e.pwa_key))
            ELSE e.kind = WindowKind_BROWSER /\ e.pwa_key = None

\* the terminal whitelist, as the claim lists it
C21_Whitelist == {s_Alacritty, s_foot}

\* the terminal test on a raw record: a pid, a whitelisted class and a working
\* directory obtained for the pid
TerminalTest(args) ==
    /\ TruthyInt(args.client.pid)
    /\ args.client.class # None /\ Val(args.client.class) \in C21_Whitelist
    /\ TruthySeq(args.realpath)

\* the browser-class test on a raw record
BrowserTest(args) ==
    /\ TruthySeq(ClassifiedClass(args))
    /\ browser_class(Val(ClassifiedClass(args)))

\* C21: the classifier assigns the kind by a fixed priority: WebApp or Browser when
\* the class is a browser-engine class, else Terminal exactly when the record has a
\* pid, a whitelisted class and a working directory was obtained, else Application;
\* a record passing the browser-class test is never Terminal, and an entry of kind
\* Terminal always carries a cwd.
C21_DecisionOrder ==
    (via = "classify" /\ ctorRes.ok) =>
        LET e == Val(ctorRes.entry)
            args == Val(ctorArgs)
        IN  /\ BrowserTest(args) => e.kind \in {WindowKind_PWA, WindowKind_BROWSER}
            /\ (~BrowserTest(args) /\ TerminalTest(args)) => e.kind = WindowKind_TERMINAL
            /\ (~BrowserTest(args) /\ ~TerminalTest(args)) => e.kind = WindowKind_APPLICATION
            /\ e.kind = WindowKind_TERMINAL => TruthySeq(e.cwd)

\* C21 witness: a whitelisted terminal with a pid and a working directory was
\* classified Terminal, and so was none of the browser-class records.
C21_Witness ==
    /\ via = "classify" /\ ctorRes.ok
    /\ TerminalTest(Val(ctorArgs)) /\ ~BrowserTest(Val(ctorArgs))
    /\ Val(ctorRes.entry).kind = WindowKind_TERMINAL
    /\ Val(ctorRes.entry).cwd = Some(s_cwd)

-----------------------------------------------------------------------------
(* Claims about the snapshot builder, checked under SpecSave *)

\* the window manager marked the live window unmapped
MarkedUnmapped(w) == w.client.mapped = Some(FALSE)

\* the live windows not marked unmapped, in encounter order
NotUnmapped == SelectSeq(clients, LAMBDA w : ~MarkedUnmapped(w))

\* C22: the entries _process_clients returns are exactly the classifications of the
\* raw clients not marked unmapped, one per such client, in encounter order; an
\* unmapped client adds no entry and no missing-mapping report, and a client of the
\* system denylist still has its entry.
C22_BuilderOutput ==
    savePc = "done" =>
        /\ Len(saved) = Len(NotUnmapped)
        /\ \A i \in 1..Len(NotUnmapped) : i <= Len(saved) =>
            saved[i] = Val(_create_client_entry(NotUnmapped[i].client, cfg.pwa,
                                                NotUnmapped[i].realpath).entry)
        /\ \A c \in missing_mappings :
            \E i \in 1..Len(NotUnmapped) : WindowClass(NotUnmapped[i]) = Some(c)

\* C22 witness: an unmapped firefox window with no apps entry and a waybar window:
\* the builder returned the waybar entry alone and reported nothing missing.
C22_Witness ==
    /\ savePc = "done" /\ Len(clients) = 2
    /\ clients[1].client.class = Some(s_firefox) /\ MarkedUnmapped(clients[1])
    /\ clients[2].client.class = Some(s_waybar)
    /\ ~Has(cfg.apps, s_firefox)
    /\ Len(saved) = 1 /\ saved[1].class_name = s_waybar
    /\ missing_mappings = {}

-----------------------------------------------------------------------------
(* SpecResolve: the command of one saved entry under one command map, as the
   launcher resolves it and as the --dry-run preview of restore resolves it *)

\* dict.get(k, ""): the value, "" when the key is absent
LookupOrEmpty(d, k) == IF Has(d, k) THEN Val(Lookup(d, k)) ELSE <<>>

\* a mutant of _get_command_for_entry: the apps table is consulted for a Browser too
_get_command_for_entry_any_kind(entry, app_map) ==
    LET pwa_cmd == IF entry.kind = WindowKind_PWA /\ TruthySeq(entry.pwa_key)
                   THEN LookupOrEmpty(app_map.pwa, Val(entry.pwa_key)) ELSE <<>>
        apps_cmd == IF entry.kind # WindowKind_PWA
                    THEN LookupOrEmpty(app_map.apps, entry.class_name) ELSE <<>>
    IN  IF pwa_cmd # <<>> THEN pwa_cmd
        ELSE IF apps_cmd # <<>> THEN apps_cmd
        ELSE IF entry.class_name # <<>> /\ Has(app_map.flat, entry.class_name)
        THEN Val(Lookup(app_map.flat, entry.class_name))
        ELSE IF TruthySeq(entry.app_id) /\ Has(app_map.flat, Val(entry.app_id))
        THEN Val(Lookup(app_map.flat, Val(entry.app_id)))
        ELSE <<>>

\* _get_command_for_entry(entry, app_map): the command, "" when there is none
_get_command_for_entry(entry, app_map) ==
    LET pwa_cmd == IF entry.kind = WindowKind_PWA /\ TruthySeq(entry.pwa_key)
                   THEN LookupOrEmpty(app_map.pwa, Val(entry.pwa_key)) ELSE <<>>
        apps_cmd == IF entry.kind \in {WindowKind_APPLICATION, WindowKind_TERMINAL}
                    THEN LookupOrEmpty(app_map.apps, entry.class_name) ELSE <<>>
    IN  IF pwa_cmd # <<>> THEN pwa_cmd
        ELSE IF apps_cmd # <<>> THEN apps_cmd
        ELSE IF entry.class_name # <<>> /\ Has(app_map.flat, entry.class_name)
        THEN Val(Lookup(app_map.flat, entry.class_name))
        ELSE IF TruthySeq(entry.app_id) /\ Has(app_map.flat, Val(entry.app_id))
        THEN Val(Lookup(app_map.flat, Val(entry.app_id)))
        ELSE <<>>

cmd_pwa == <<Lit("pwa")>>
cmd_apps == <<Lit("apps")>>
cmd_class == <<Lit("class")>>
cmd_app_id == <<Lit("app_id")>>

\* the saved entries tried: every kind, with and without an app_id; a PWA entry has
\* its key
ResolveEntries ==
    {[SavedEntry(a, s_firefox, s_x, FALSE) EXCEPT
        !.kind = k,
        !.pwa_key = IF k = WindowKind_PWA THEN Some(s_gh) ELSE None] :
        a \in {None, Some(s_bar)}, k \in WindowKinds}

\* the command maps tried: the tables with no entry, a command or an empty command
\* for the entry's key, and the flat entries for its class and its app_id
ResolveMaps ==
    [pwa : {<<>>, <<<<s_gh, cmd_pwa>>>>, <<<<s_gh, <<>>>>>>},
     apps : {<<>>, <<<<s_firefox, cmd_apps>>>>, <<<<s_firefox, <<>>>>>>},
     flat : {<<>>, <<<<s_firefox, cmd_class>>>>, <<<<s_bar, cmd_app_id>>>>,
             <<<<s_bar, cmd_app_id>>, <<s_firefox, cmd_class>>>>,
             <<<<s_firefox, <<>>>>, <<s_bar, cmd_app_id>>>>}]

ResolveInit ==
    /\ comp = "resolve" /\ EntryIdle /\ PwaIdle /\ SaveIdle /\ RestoreIdle /\ CmdIdle
    /\ restorePc = "start" /\ inputFile = None /\ appmap = EmptyToml
    /\ LaunchIdle /\ calls = NoCalls /\ report = <<>>

ResolveOthers == <<comp, entryVars, pwaVars, saveVars, cmdVars, inputFile, launchIdx,
                   launched, calls, now, waitVars, placeVars>>

\* launch_applications_with_logging, the command it resolves for an entry: execs
\* holds it, and is empty when the entry is skipped
ResolveLauncher ==
    /\ comp = "resolve" /\ restorePc = "start"
    /\ \E e \in ResolveEntries, m \in ResolveMaps :
        LET cmd == launcher_command(e, m)
        IN  /\ desired' = <<e>>
            /\ appmap' = m
            /\ execs' = IF TruthyCmd(cmd) THEN <<Val(cmd)>> ELSE <<>>
    /\ restorePc' = "launcher"
    /\ UNCHANGED <<report, ResolveOthers>>

\* _show_dry_run_preview, one entry: execs holds the command shown, and is empty
\* when the preview shows none; report holds missing_mappings
ResolvePreview ==
    /\ comp = "resolve" /\ restorePc = "start"
    /\ \E e \in ResolveEntries, m \in ResolveMaps :
        LET cmd == _get_command_for_entry(e, m)
        IN  /\ desired' = <<e>>
            /\ appmap' = m
            /\ execs' = IF cmd # <<>> THEN <<cmd>> ELSE <<>>
            /\ report' = IF cmd # <<>> THEN <<>>
                         ELSE <<IF e.class_name # <<>> THEN e.class_name ELSE s_unknown>>
    /\ restorePc' = "preview"
    /\ UNCHANGED ResolveOthers

ResolveNext == ResolveLauncher \/ ResolvePreview

SpecResolve == ResolveInit /\ [][ResolveNext]_vars

\* the command found in the table of the entry's kind: pwa for a WebApp, apps for
\* an Application or a Terminal, none for a Browser; <<>> when it yields nothing
TableCommand(e, m) ==
    IF e.kind = WindowKind_PWA THEN LookupOrEmpty(m.pwa, Val(e.pwa_key))
    ELSE IF e.kind \in {WindowKind_APPLICATION, WindowKind_TERMINAL}
    THEN LookupOrEmpty(m.apps, e.class_name)
    ELSE <<>>

\* C23: the launcher (and the preview alike) resolves an entry's command as (1)
\* pwa[key] for a WebApp, (2) apps[class] for an Application or Terminal, and only
\* when that yields nothing (3) the flat entry of the class, else the flat entry of
\* the app-id: a table hit wins over a flat entry, the class key wins over the
\* app-id key, and a Browser entry resolves through the flat entries only.
C23_ResolutionOrder ==
    restorePc \in {"launcher", "preview"} =>
        LET e == desired[1]
            m == appmap
            table == TableCommand(e, m)
            byClass == LookupOrEmpty(m.flat, e.class_name)
            byAppId == IF e.app_id = None THEN <<>> ELSE LookupOrEmpty(m.flat, Val(e.app_id))
        IN  /\ table # <<>> => execs = <<table>>
            /\ (table = <<>> /\ byClass # <<>>) => execs = <<byClass>>
            /\ (table = <<>> /\ ~Has(m.flat, e.class_name) /\ byAppId # <<>>)
                => execs = <<byAppId>>
            /\ (table = <<>> /\ byClass = <<>> /\ byAppId = <<>>) => execs = <<>>
            /\ e.kind = WindowKind_BROWSER => execs \in {<<>>, <<byClass>>, <<byAppId>>}

\* C23 witness: the launcher took the apps entry of an Application although both
\* flat entries exist, and the flat class entry of a Browser although the apps
\* table has an entry for its class.
C23_Witness ==
    /\ restorePc = "launcher"
    /\ Has(appmap.flat, s_firefox) /\ Has(appmap.flat, s_bar)
    /\ Has(appmap.apps, s_firefox)
    /\ desired[1].app_id = Some(s_bar)
    /\ \/ desired[1].kind = WindowKind_APPLICATION /\ execs = <<cmd_apps>>
       \/ desired[1].kind = WindowKind_BROWSER /\ execs = <<cmd_class>>

-----------------------------------------------------------------------------
(* Claims about the launcher's placeholders, checked under SpecRestore *)

\* shell escaping of a text made of safe characters (letters and "/"): the text
\* itself; the empty text escapes to ''
ShellEscaped(text) == IF text = <<>> THEN <<"'", "'">> ELSE text

\* the command with every {cwd} replaced by the escaped directory and every {url} by
\* the escaped empty text
Substituted(cmd, dir) ==
    Replace(Replace(cmd, CwdToken, ShellEscaped(dir)), UrlToken, ShellEscaped(<<>>))

\* C24: with hyprctl available, once the launcher is left every entry with a
\* resolved command was launched by exactly one execute request, whose command has
\* every {cwd} replaced by the escaped working directory of the entry (the home
\* directory when it has none) and every {url} by an escaped empty string, a
\* command without placeholder being dispatched as it is; each counts as launched.
C24_PlaceholderSubstitution ==
    (LauncherLeft /\ hyprctl) =>
        /\ launched = Len(ResolvedEntries)
        /\ Len(execs) = Len(ResolvedEntries)
        /\ \A i \in 1..Len(ResolvedEntries) : i <= Len(execs) =>
            LET e == ResolvedEntries[i]
                cmd == Val(launcher_command(e, appmap))
            IN  \E home \in Homes :
                    execs[i] = Substituted(cmd, IF TruthySeq(e.cwd) THEN Val(e.cwd) ELSE home)

-----------------------------------------------------------------------------
(* Claims about the waiter's loop, checked under SpecWait *)

\* the identity key of a saved entry: app-id, else class, else the generic key
EntryKey(e) ==
    IF e.app_id # None /\ Val(e.app_id) # <<>> THEN Val(e.app_id)
    ELSE IF e.class_name # <<>> THEN e.class_name
    ELSE s_unknown

\* the identity key of a live window: app-id, else class, else initial class
WindowKey(c) ==
    IF c.app_id # None /\ Val(c.app_id) # <<>> THEN c.app_id
    ELSE IF c.class # None /\ Val(c.class) # <<>> THEN c.class
    ELSE c.initialClass

\* every key of the target multiset has an observed count >= its desired count
TargetSatisfied ==
    \A k \in {EntryKey(desired[i]) : i \in 1..Len(desired)} :
        Cardinality({w \in 1..Len(now) : WindowKey(now[w]) = Some(k)})
            >= Cardinality({i \in 1..Len(desired) : EntryKey(desired[i]) = k})

-----------------------------------------------------------------------------
(* Claims about the waiter's result in a restore run, checked under SpecRestore *)

\* C26: wait_for_windows returns the client list of its last poll, whether or not
\* the target was satisfied (at the deadline it may be under-satisfied); a poll
\* whose query failed counts as an empty observation; restore hands the returned
\* list unchanged to place_windows and goes on to report the placed ratio.
C26_WaiterResult ==
    /\ [][(waitPc # "done" /\ waitPc' = "done") => now' = now]_vars
    /\ [][(restorePc = "wait" /\ waitPc = "done") =>
            (restorePc' = "place" /\ now' = now /\ unmatched' = 1..Len(now))]_vars
    /\ [][(restorePc = "place" \/ restorePc = "exit") => now' = now]_vars
    /\ []((restorePc = "exit" /\ calls.wait = 1) =>
            (Len(report) = 2 /\ report[2] = <<"placed", placed, Len(desired)>>))
    /\ []((restorePc \in {"place", "exit"} /\ calls.wait = 1 /\ ~hyprctl) =>
            (now = <<>> /\ placed = 0))

\* C26 witness: the deadline passed with the terminal observed and the firefox
\* window missing; restore placed the terminal and reported 1/2.
C26_Witness ==
    /\ restorePc = "exit" /\ clock >= deadline /\ ~TargetSatisfied
    /\ Len(desired) = 2 /\ Len(now) = 1
    /\ report[2] = <<"placed", 1, 2>>

-----------------------------------------------------------------------------
(* Claims about place_windows and match_window, checked under SpecPlace *)

\* the candidates of an entry: the unclaimed observed windows with the entry's key
Candidates(e, pool) == {w \in pool : WindowKey(now[w]) = Some(EntryKey(e))}

\* one title is a case-insensitive substring of the other, both being non-empty
TitlesAgree(e, c) ==
    LET t == Lower(e.title)
        ct == IF c.title = None THEN <<>> ELSE Lower(Val(c.title))
    IN  t # <<>> /\ ct # <<>> /\ (IsSubstr(t, ct) \/ IsSubstr(ct, t))

\* the score of the claim: 1, plus 2 for agreeing titles, plus 1 for equal floating
\* flags (a window that reports no flag has none to be equal)
ClaimedScore(e, c) ==
    1 + (IF TitlesAgree(e, c) THEN 2 ELSE 0)
      + (IF c.floating # None /\ Val(c.floating) = e.floating THEN 1 ELSE 0)

\* C27: for every saved entry match_window returns a window exactly when an
\* unclaimed observed window has the entry's identity key; the window returned is
\* such a candidate, no candidate has a higher score (1, +2 for agreeing titles, +1
\* for equal floating flags), and no candidate of the same score comes earlier in
\* the observed list.
C27_MatcherScoring ==
    \A i \in 1..Len(hist) :
        LET e == desired[i]
            cand == Candidates(e, hist[i].pool)
            win == hist[i].win
        IN  /\ win = 0 <=> cand = {}
            /\ win # 0 =>
                /\ win \in cand
                /\ \A w \in cand : ClaimedScore(e, now[w]) <= ClaimedScore(e, now[win])
                /\ \A w \in cand :
                    ClaimedScore(e, now[w]) = ClaimedScore(e, now[win]) => win <= w

\* C27 witness: of two candidates the later one was returned to the first entry,
\* for its higher score, and the earlier one to the second entry.
C27_Witness ==
    /\ Len(hist) = 2 /\ Len(now) = 2
    /\ Candidates(desired[1], hist[1].pool) = {1, 2}
    /\ hist[1].win = 2
    /\ ClaimedScore(desired[1], now[2]) > ClaimedScore(desired[1], now[1])
    /\ hist[2].win = 1

\* the observed windows claimed so far
Claimed == (1..Len(now)) \ unmatched

\* the smaller of two numbers
Smaller(a, b) == IF a <= b THEN a ELSE b

NoCandidate ==
    /\ comp = "place" /\ placePc = "loop" /\ placeIdx < Len(desired)
    /\ Candidates(desired[placeIdx + 1], unmatched) = {}

\* C29: when no unclaimed observed window shares the entry's identity key,
\* match_window returns no match and the iteration of place_windows issues no
\* command, counts nothing, leaves the set of unclaimed windows as it is and moves
\* to the next entry, the loop going on.
C29_UnmatchedEntry ==
    [][NoCandidate =>
        /\ cmds' = cmds /\ placed' = placed /\ unmatched' = unmatched
        /\ placeIdx' = placeIdx + 1 /\ placePc' = "loop"
        /\ Len(hist') = Len(hist) + 1 /\ hist'[Len(hist')].win = 0]_vars

\* C29 witness: the first entry found no window of its key among the two unclaimed
\* ones and was skipped; the second entry was then matched and placed.
C29_Witness ==
    /\ placePc = "done" /\ Len(desired) = 2 /\ Len(now) = 2
    /\ hist[1].win = 0 /\ hist[1].pool = {1, 2}
    /\ Candidates(desired[1], hist[1].pool) = {}
    /\ hist[2].win # 0 /\ hist[2].pool = {1, 2}
    /\ placed = 1

\* the commands the claim prescribes for entry e matched to window c: focus by
\* address, move to the saved workspace, toggle floating iff the saved flag differs
\* from the observed one (a window reporting no flag counts as tiled), and for a
\* floating entry resize then move
PrescribedCommands(e, c) ==
    LET observed == c.floating # None /\ Val(c.floating)
    IN  << <<"focuswindow", <<"address", c.address>> >>,
           <<"movetoworkspacesilent", Str(e.workspace)>> >>
        \o (IF e.floating # observed THEN << <<"togglefloating">> >> ELSE <<>>)
        \o (IF e.floating
            THEN << <<"resizewindowpixel", "exact", Str(e.size[1]), Str(e.size[2])>>,
                    <<"movewindowpixel", "exact", Str(e.at[1]), Str(e.at[2])>> >>
            ELSE <<>>)

\* the commands prescribed for the first n entries processed, entry after entry
RECURSIVE PrescribedUpTo(_)
PrescribedUpTo(n) ==
    IF n = 0 THEN <<>>
    ELSE PrescribedUpTo(n - 1)
         \o (IF hist[n].win = 0 THEN <<>>
             ELSE PrescribedCommands(desired[n], now[hist[n].win]))

\* C30: the commands issued are, entry after entry, those of each matched entry in
\* the order focus-by-address (of the matched window), move-to-workspace-silently
\* (the saved workspace), toggle-floating iff the saved flag differs from the
\* observed one, then resize-exact and move-exact iff the saved entry is floating;
\* so a tiled entry gets no geometry command, a match at most one toggle, and the
\* commands of an entry all precede the focus command of the next.
C30_CommandOrder ==
    cmds = PrescribedUpTo(Len(hist))

\* C30 witness: a floating entry matched to a tiled window got the five commands
\* focus, move to workspace, toggle, resize, move, and the focus command of the
\* next matched entry follows them.
C30_Witness ==
    /\ placePc = "done" /\ Len(hist) = 2 /\ hist[1].win # 0 /\ hist[2].win # 0
    /\ desired[1].floating /\ now[hist[1].win].floating = Some(FALSE)
    /\ Len(cmds) >= 6
    /\ cmds[1][1] = "focuswindow" /\ cmds[2][1] = "movetoworkspacesilent"
    /\ cmds[3][1] = "togglefloating" /\ cmds[4][1] = "resizewindowpixel"
    /\ cmds[5][1] = "movewindowpixel"
    /\ cmds[6] = <<"focuswindow", <<"address", now[hist[2].win].address>> >>

-----------------------------------------------------------------------------
(* Claims about the phases of restore_session, checked under SpecRestore *)

\* C31: in a restore without --dry-run every execute request is issued before the
\* waiter's first poll, every poll is finished before the first placement command,
\* the list used for matching is the waiter's return value and is not refreshed
\* during placement, and the deadline is 30 time units after the launcher returned.
C31_SequentialPhases ==
    /\ [][waitPc # "idle" => (execs' = execs /\ launched' = launched)]_vars
    /\ [][placePc # "idle" => (now' = now /\ clock' = clock /\ waitPc' = "done")]_vars
    /\ [](cmds # <<>> => (waitPc = "done" /\ restorePc \in {"place", "exit"}))
    /\ [](now # <<>> => restorePc \in {"wait", "place", "exit"})
    /\ [][(restorePc = "launch" /\ restorePc' # "launch" /\ restorePc' # "exit") =>
            (restorePc' = "wait" /\ waitPc' = "test" /\ now' = <<>>
             /\ deadline' = clock' + 30)]_vars

\* C31 witness: a restore that issued two execute requests, polled past time 0 and
\* placed two windows has ended.
C31_Witness ==
    /\ restorePc = "exit" /\ Len(execs) = 2 /\ clock >= 1
    /\ Len(now) = 2 /\ placed = 2 /\ cmds # <<>>
    /\ Len(report) = 2

\* C32: restore only reads what it loaded: from the loading on, through the
\* launcher, the waiter, the placer or the dry-run preview, every saved entry keeps
\* the field values deserialization gave it and the command map stays as read.
C32_RestoreOnlyReads ==
    /\ [][restorePc # "start" => (desired' = desired /\ appmap' = appmap)]_vars
    /\ []((RestoreLoaded /\ restorePc # "start") =>
            /\ desired = load_entries(client_data_of(Val(inputFile))).desired
            /\ appmap = read_toml(Val(apps_toml)).data)

\* C32 witness: a restore that launched an entry without cwd and the terminal,
\* waited and placed a window has ended with its entries as deserialized.
C32_Witness ==
    /\ restorePc = "exit" /\ RestoreLoaded /\ ~dry_run
    /\ Len(execs) = 2 /\ placed >= 1 /\ Len(report) = 2
    /\ desired = <<Entry_firefox, Entry_terminal>>
    /\ appmap.apps # <<>>

\* the identity keys of the saved entries
SavedKeys == {EntryKey(desired[i]) : i \in 1..Len(desired)}

\* the saved entries with key k, those of them that were placed, and the observed
\* windows with key k
EntriesOf(k) == {i \in 1..Len(desired) : EntryKey(desired[i]) = k}
PlacedOf(k) == {i \in EntriesOf(k) : i <= Len(hist) /\ hist[i].win # 0}
WindowsOf(k) == {w \in 1..Len(now) : WindowKey(now[w]) = Some(k)}

\* C33: when place_windows returns, for each identity key k the number of placed
\* entries with key k is min(number of saved entries with key k, number of observed
\* windows with key k), and no entry was left unplaced while an unclaimed window of
\* its identity remained.
C33_PerIdentityCount ==
    (comp = "place" /\ placePc = "done") =>
        /\ \A k \in SavedKeys :
            Cardinality(PlacedOf(k))
                = Smaller(Cardinality(EntriesOf(k)), Cardinality(WindowsOf(k)))
        /\ \A i \in 1..Len(hist) :
            hist[i].win = 0 => Candidates(desired[i], hist[i].pool) = {}

\* C33 witness: two entries of key foo and one window of key foo (beside a window
\* of another key): exactly one of the two entries was placed.
C33_Witness ==
    /\ comp = "place" /\ placePc = "done"
    /\ Cardinality(EntriesOf(s_foo)) = 2 /\ Cardinality(WindowsOf(s_foo)) = 1
    /\ Len(now) = 2
    /\ Cardinality(PlacedOf(s_foo)) = 1 /\ placed = 1

-----------------------------------------------------------------------------
(* SpecSelf: place_windows on a window list and the entries save builds from that
   very list *)

\* the windows tried: those of SpecPlace and a window with no class, initial class
\* or app_id
SelfWindows ==
    PlaceWindows \cup {Window(None, None, None, Some(s_x), Some(FALSE))}

\* the entry _create_client_entry builds from an observed window (no web-app table,
\* no cwd)
EntryOfWindow(w) == Val(_create_client_entry(w, <<>>, None).entry)

SelfInit ==
    /\ comp = "self" /\ EntryIdle /\ PwaIdle /\ SaveIdle /\ WaitIdle
    /\ CmdIdle /\ CommandIdle
    /\ now \in {Addressed(ws) : ws \in SeqsOf(SelfWindows, 0, MaxWindows)}
    /\ desired = [i \in 1..Len(now) |-> EntryOfWindow(now[i])]
    /\ placePc = "loop" /\ placeIdx = 0
    /\ unmatched = 1..Len(now)
    /\ placed = 0 /\ cmds = <<>> /\ hist = <<>>

SpecSelf == SelfInit /\ [][PlaceNext]_vars

\* every window of the list is mapped, has a non-empty class and an explicit boolean
\* floating flag
SelfPremise ==
    \A w \in 1..Len(now) :
        /\ now[w].mapped # Some(FALSE)
        /\ now[w].class # None /\ Val(now[w].class) # <<>>
        /\ now[w].floating \in {Some(TRUE), Some(FALSE)}

\* C34: when the entries are built from a window list W whose windows are mapped,
\* have a non-empty class and an explicit boolean floating flag, place_windows on
\* the same list matches the i-th entry to the i-th window, returns |W| and issues
\* no toggle-floating command.
C34_SelfSnapshot ==
    (comp = "self" /\ SelfPremise) =>
        /\ \A i \in 1..Len(hist) : hist[i].win = i
        /\ \A c \in 1..Len(cmds) : cmds[c][1] # "togglefloating"
        /\ placePc = "done" => (placed = Len(now) /\ Len(hist) = Len(now))

\* C34 witness: two tiled windows of one class, the title of one containing the
\* title of the other: each entry got its own window and nothing was toggled.
C34_Witness ==
    /\ comp = "self" /\ SelfPremise /\ placePc = "done"
    /\ Len(now) = 2 /\ placed = 2
    /\ now[1].title = Some(s_x) /\ now[2].title = Some(s_Xy)
    /\ WindowKey(now[1]) = WindowKey(now[2])
    /\ hist[1].win = 1 /\ hist[2].win = 2
    /\ Len(cmds) = 4

-----------------------------------------------------------------------------
(* Claims about the dry-run preview, checked under SpecResolve *)

\* what the launcher does with an entry under a map: the command it dispatches, or
\* nothing when it skips the entry
LauncherOutcome(e, m) ==
    IF TruthyCmd(launcher_command(e, m)) THEN <<Val(launcher_command(e, m))>> ELSE <<>>

\* what the preview shows for an entry under a map: the command, or nothing
PreviewOutcome(e, m) ==
    IF _get_command_for_entry(e, m) # <<>> THEN <<_get_command_for_entry(e, m)>> ELSE <<>>

\* C35: for every saved entry and command map the dry-run preview shows a command
\* exactly when the launcher would dispatch the entry, and the same command; the
\* preview lists the entry under missing mappings exactly when the launcher would
\* skip it.
C35_PreviewAgrees ==
    /\ restorePc = "preview" =>
        /\ execs = LauncherOutcome(desired[1], appmap)
        /\ report # <<>> <=> LauncherOutcome(desired[1], appmap) = <<>>
    /\ restorePc = "launcher" => execs = PreviewOutcome(desired[1], appmap)

\* C35 witness: the preview showed the flat command of a Browser entry whose class
\* also has an apps entry, and listed nothing as missing.
C35_Witness ==
    /\ restorePc = "preview"
    /\ desired[1].kind = WindowKind_BROWSER
    /\ Has(appmap.apps, s_firefox) /\ Has(appmap.flat, s_firefox)
    /\ execs = <<cmd_class>> /\ report = <<>>

-----------------------------------------------------------------------------
(* Claims about the loading of the snapshot, checked under SpecRestore *)

\* the snapshot file is valid JSON and some client record of it is rejected by
\* ClientEntry.from_dict
BadClientRecord ==
    /\ comp = "restore" /\ inputFile # None /\ Val(inputFile).kind = "valid"
    /\ \E i \in 1..Len(client_data_of(Val(inputFile))) :
        ~from_dict(client_data_of(Val(inputFile))[i]).ok

SkippedEntries ==
    {i \in 1..Len(desired) : ~TruthyCmd(launcher_command(desired[i], appmap))}

\* C37: the waiter's target counts every saved entry, the ones the launcher skipped
\* and the ones with the generic key included: a poll that leaves some saved key
\* below its saved count does not end the wait, the wait then ends only at the
\* deadline, and placement runs next on the windows of the last poll
C37_TargetCountsAll ==
    /\ []((comp = "restore" /\ waitPc = "done" /\ ~TargetSatisfied) => clock >= deadline)
    /\ [][(restorePc = "wait" /\ waitPc = "polled" /\ ~TargetSatisfied)
            => (waitPc' = "test" /\ restorePc' = "wait")]_vars
    /\ [][(restorePc = "wait" /\ waitPc = "done" /\ ~TargetSatisfied)
            => (restorePc' = "place" /\ now' = now /\ desired' = desired)]_vars

\* the terminal was launched and is up, the entry with the generic key was skipped
\* and never appeared, the wait ended at the deadline and placement ran
C37_Witness ==
    /\ comp = "restore" /\ restorePc = "exit" /\ calls.place = 1
    /\ Len(desired) = 2 /\ EntryKey(desired[1]) = s_unknown
    /\ SkippedEntries = {1} /\ launched = 1
    /\ Len(now) = 1 /\ WindowKey(now[1]) = Some(s_Alacritty)
    /\ waitPc = "done" /\ ~TargetSatisfied /\ clock >= deadline
    /\ cmds # <<>>

\* the saved entries of kind Application or Terminal whose class is not a system class
CheckedEntries ==
    {i \in 1..Len(saved) :
        /\ saved[i].kind \in {WindowKind_APPLICATION, WindowKind_TERMINAL}
        /\ saved[i].class_name \notin system_classes}

\* C38: with one command map, save reports the class of an Application or Terminal
\* window with a non-system class as missing exactly if the launcher finds no command
\* for the saved entry
C38_MappingGapsAgree ==
    (comp = "save" /\ savePc = "done") =>
        \A i \in CheckedEntries :
            (saved[i].class_name \in missing_mappings)
                <=> ~TruthyCmd(launcher_command(saved[i], cfg))

\* the window the first loop of match_window selects (0: none)
ScoringChoice(e, pool) == scoring_pass(e, now, pool, 1, 0, -1)

\* C39: the fallback second pass of match_window has no effect: for every saved
\* entry and every set of unclaimed windows of the observed list, when the scoring
\* pass selects no candidate, no unclaimed window shares the entry's identity key
\* and the second pass returns none, so match_window returns what the scoring pass
\* selects
C39_FallbackUnreachable ==
    comp = "place" =>
        \A i \in 1..Len(desired), pool \in SUBSET (1..Len(now)) :
            /\ ScoringChoice(desired[i], pool) = 0 =>
                /\ Candidates(desired[i], pool) = {}
                /\ fallback_pass(desired[i], now, pool) = 0
            /\ match_window(desired[i], now, pool) = ScoringChoice(desired[i], pool)

\* C39 witness: the scoring pass selected none for the first entry although two
\* windows were unclaimed, and it selected for the second entry a candidate with
\* the lowest score, 1: neither title nor floating flag agree
C39_Witness ==
    /\ placePc = "done" /\ Len(desired) = 2 /\ Len(now) = 2
    /\ hist[1].win = 0 /\ hist[1].pool = {1, 2}
    /\ ScoringChoice(desired[1], hist[1].pool) = 0
    /\ hist[2].win # 0 /\ hist[2].win = ScoringChoice(desired[2], hist[2].pool)
    /\ score(desired[2], now[hist[2].win]) = 1

====
